---- MODULE Spec2Model ----
(***************************************************************************)
(* A model of the WhatsApp send campaign: the Electron main process        *)
(* (ipcMain handlers init-whatsapp, send-messages, create-group,           *)
(* disconnect-whatsapp) and WhatsAppHandler (initialize, formatMessage,    *)
(* formatPhoneNumber, sendMessage, sendMessages, createGroupFromExcel,     *)
(* destroy).                                                               *)
(*                                                                         *)
(* Text is a sequence of one-character strings.  Error descriptions and    *)
(* status words are TLA+ strings.  A cell is a record with a type tag t    *)
(* and a value v.  A row is the ordered sequence of its <<key, cell>>      *)
(* pairs, in the order Object.keys visits them.                            *)
(***************************************************************************)
EXTENDS Integers, Sequences, FiniteSets, TLC

\* Bounds of the model.
MaxRows == 2
MaxHandlers == 1
MaxInvocations == 2

VARIABLES
    whatsappHandler,  \* main process: 0 is null, otherwise an index of handlers
    handlers,         \* every WhatsAppHandler object constructed so far
    disconnecting,    \* the handler a disconnect-whatsapp call is destroying, 0 if none
    runs,             \* the send-messages invocations
    group,            \* the create-group invocation
    inflight,         \* transport operations issued and not yet settled
    transportLog,     \* every transport operation issued, in order of issue
    call,             \* one call of a function of WhatsAppHandler on its own
    ui                \* the renderer: the state of App

vars == <<whatsappHandler, handlers, disconnecting, runs, group,
          inflight, transportLog, call, ui>>

(***************************************************************************)
(* Text                                                                    *)
(***************************************************************************)
NA == <<"N", "/", "A">>
Suffix == <<"@", "c", ".", "u", "s">>
DigitChars == <<"0", "1", "2", "3", "4", "5", "6", "7", "8", "9">>
IsDigit(c) == \E k \in 1..10 : DigitChars[k] = c

RECURSIVE NatToText(_)
NatToText(n) ==
    IF n < 10 THEN <<DigitChars[n + 1]>>
    ELSE NatToText(n \div 10) \o <<DigitChars[(n % 10) + 1]>>

\* s starts with p at position k (1-based)
MatchAt(s, p, k) ==
    /\ k + Len(p) - 1 <= Len(s)
    /\ \A j \in 1..Len(p) : s[k + j - 1] = p[j]

\* message.replace(placeholder, value): the first occurrence only
RECURSIVE SplitJoinFrom_FirstOnly(_, _, _, _)
SplitJoinFrom_FirstOnly(s, p, v, k) ==
    IF k > Len(s) THEN <<>>
    ELSE IF Len(p) > 0 /\ MatchAt(s, p, k) THEN v \o SubSeq(s, k + Len(p), Len(s))
    ELSE <<s[k]>> \o SplitJoinFrom_FirstOnly(s, p, v, k + 1)

\* message.split(placeholder).join(value): every non-overlapping occurrence,
\* found left to right, is replaced; the replacement is not scanned again.
RECURSIVE SplitJoinFrom(_, _, _, _)
SplitJoinFrom(s, p, v, k) ==
    IF k > Len(s) THEN <<>>
    ELSE IF Len(p) > 0 /\ MatchAt(s, p, k) THEN v \o SplitJoinFrom(s, p, v, k + Len(p))
    ELSE <<s[k]>> \o SplitJoinFrom(s, p, v, k + 1)

SplitJoin(s, p, v) == SplitJoinFrom(s, p, v, 1)

\* phone.toString().replace(/\D/g, '')
StripNonDigits(s) == SelectSeq(s, IsDigit)

(***************************************************************************)
(* Cells and rows                                                          *)
(***************************************************************************)
Undefined == [t |-> "undefined", v |-> <<>>]
Str(s) == [t |-> "string", v |-> s]
Num(n) == [t |-> "number", v |-> <<n>>]
\* a Date, as <<month, day, year>>
DateCell(d) == [t |-> "date", v |-> d]

RowIndexKey == <<"_", "_", "r", "o", "w", "I", "n", "d", "e", "x">>
PhoneKey == <<"P">>
NameKey == <<"N">>

Keys(row) == [k \in 1..Len(row) |-> row[k][1]]
HasKey(row, key) == \E k \in 1..Len(row) : row[k][1] = key
\* row[column]
Cell(row, key) ==
    IF HasKey(row, key)
    THEN row[CHOOSE k \in 1..Len(row) : row[k][1] = key][2]
    ELSE Undefined

\* cellValue.toString() of a text or a number
ToText(cell) ==
    IF cell.t = "number" THEN NatToText(cell.v[1]) ELSE cell.v

\* cellValue.toLocaleDateString(): month/day/year of the en-US locale
ToLocaleDateString(cell) ==
    NatToText(cell.v[1]) \o <<"/">> \o NatToText(cell.v[2]) \o <<"/">> \o NatToText(cell.v[3])

\* a test for undefined alone in place of !phone
Falsy_OnlyUndefined(cell) == cell.t = "undefined"

\* a test that takes the number 0 for a phone
Falsy_ZeroTruthy(cell) ==
    \/ cell.t = "undefined"
    \/ cell.t = "string" /\ cell.v = <<>>

\* !phone : undefined, the empty string and the number 0 are falsy
Falsy(cell) ==
    \/ cell.t = "undefined"
    \/ cell.t = "string" /\ cell.v = <<>>
    \/ cell.t = "number" /\ cell.v[1] = 0

\* a test that also wants a digit in the phone
Eligible_NeedsDigit(phone) ==
    /\ ~(Falsy(phone) \/ phone.t = "date")
    /\ StripNonDigits(ToText(phone)) # <<>>

\* the negation of (!phone || phone instanceof Date)
Eligible(phone) == ~(Falsy(phone) \/ phone.t = "date")

\* replace(/[^\d+]/g, ''): the plus sign is kept
formatPhoneNumber_KeepsPlus(phone) ==
    SelectSeq(ToText(phone), LAMBDA c : IsDigit(c) \/ c = "+") \o Suffix

formatPhoneNumber(phone) == StripNonDigits(ToText(phone)) \o Suffix

Placeholder(column) == <<"{">> \o column \o <<"}">>

CellDisplay(cell) ==
    IF cell.t = "undefined" THEN <<>>
    ELSE IF cell.t = "date" THEN ToLocaleDateString(cell)
    ELSE ToText(cell)

\* the forEach over Object.keys(rowData), from key k on
RECURSIVE FormatFrom(_, _, _)
FormatFrom(message, rowData, k) ==
    IF k > Len(rowData) THEN message
    ELSE CHOOSE formatted \in
             { FormatFrom(replaced, rowData, k + 1) :
                   replaced \in { SplitJoin(message, placeholder, value) :
                                      placeholder \in { Placeholder(rowData[k][1]) },
                                      value \in { CellDisplay(rowData[k][2]) } } } : TRUE

\* text without its {...} groups
RECURSIVE DropBraced(_, _)
DropBraced(s, k) ==
    IF k > Len(s) THEN <<>>
    ELSE IF s[k] = "{" /\ \E e \in (k + 1)..Len(s) : s[e] = "}"
    THEN DropBraced(s, 1 + CHOOSE e \in (k + 1)..Len(s) :
                            s[e] = "}" /\ \A d \in (k + 1)..(e - 1) : s[d] # "}")
    ELSE <<s[k]>> \o DropBraced(s, k + 1)

\* a formatMessage that clears the placeholders left over at the end
formatMessage_LeftoversCleared(template, rowData) ==
    DropBraced(FormatFrom(template, rowData, 1), 1)

formatMessage(template, rowData) == FormatFrom(template, rowData, 1)

(***************************************************************************)
(* Inputs                                                                  *)
(***************************************************************************)
\* the phone cell of a row: "absent" is a row without the phone key
PhoneKinds ==
    { "absent", "empty", "date", "text" }

PhoneCellOf(kind) ==
    CASE kind = "empty" -> Str(<<>>)
      [] kind = "date" -> DateCell(<<1, 2, 2024>>)
      [] kind = "text" -> Str(<<"+", "1", " ", "2">>)
      [] kind = "letters" -> Str(<<"a", "b", "c">>)

\* readExcelFile: formattedRow = { __rowIndex: index, ...cells }
MakeRow(index, kind) ==
    <<  <<RowIndexKey, Num(index)>> >>
    \o (IF kind = "absent" THEN <<>> ELSE << <<PhoneKey, PhoneCellOf(kind)>> >>)
    \o << <<NameKey, Str(<<"A">>)>> >>

\* the __rowIndex values of the rows handed to a campaign: the whole sheet
\* (0, 1, ...), a row range or the ticked rows, which keep their sheet index
RowIndexSeqs(n) ==
    { s \in [1..n -> 0..(MaxRows - 1)] : \A a, b \in 1..n : a < b => s[a] < s[b] }

\* options.data of a send-messages invocation
DataInputs ==
    UNION { { [k \in 1..n |-> MakeRow(idx[k], f[k])] :
                idx \in RowIndexSeqs(n), f \in [1..n -> PhoneKinds] } : n \in 0..MaxRows }


\* the sheet create-group reads: no row, a row without a phone, a row with one
GroupDataInputs ==
    { <<>>, <<MakeRow(0, "empty")>>, <<MakeRow(0, "text")>> }

Templates == { <<"{", "N", "}", "!">> }
Delays == { 0, 5 }

\* the options of a send-messages invocation: every sheet with the longest
\* delay, the sheets of at most two rows with every delay
Options ==
    { o \in [data : DataInputs, template : Templates, delay : Delays] :
          Len(o.data) <= 2 \/ \A d \in Delays : d <= o.delay }

\* the options of the invocations that contend for the transport: a row that
\* is sent, the pause, and a row without a phone
LeaseOptions ==
    { o \in Options : /\ o.delay = 5
                      /\ Len(o.data) = 2
                      /\ Cell(o.data[1], PhoneKey) = PhoneCellOf("text")
                      /\ Cell(o.data[2], PhoneKey) = Str(<<>>) }

\* the options of the campaigns followed to their end: the first two rows of
\* a sheet, each with a phone or with an empty one, and the longest delay
LiveOptions ==
    { o \in Options :
          /\ Len(o.data) = 2
          /\ \A d \in Delays : d <= o.delay
          /\ \A k \in 1..2 :
                /\ Cell(o.data[k], RowIndexKey) = Num(k - 1)
                /\ Cell(o.data[k], PhoneKey).t = "string" }

\* the options of the campaigns whose pacing is followed: one row more than
\* a sheet of MaxRows, so that a row can lie between two others; each row
\* with a phone, with letters for a phone, or with an empty one
PacedKinds == { "text", "letters", "empty" }

PacedOptions ==
    { [data |-> [k \in 1..(MaxRows + 1) |-> MakeRow(k - 1, f[k])],
       template |-> t, delay |-> 5] :
          f \in [1..(MaxRows + 1) -> PacedKinds], t \in Templates }

(***************************************************************************)
(* State                                                                   *)
(***************************************************************************)
NoError == "<none>"
RunIds == 1..MaxInvocations
\* the caller name of the create-group invocation in inflight and transportLog
GroupCaller == 0

NoResult == [status |-> "none", error |-> NoError]
NoReply == [sent |-> FALSE, success |-> FALSE, error |-> NoError]

\* a send-messages invocation.  Of the code: this, the four options, i,
\* message, results, result and the reply.  History kept for the properties:
\* established (was the session ready when the run began), rendered (the i of
\* every formatMessage call), attempts (the i of every this.sendMessage call),
\* returned (what each of these calls returned), progress (the
\* progressCallback calls), delays (the pauses begun), given (the options as
\* the invocation received them), settled (how each call of the client
\* settled).
IdleRun ==
    [ pc |-> "idle", this |-> 0,
      data |-> <<>>, phoneColumn |-> <<>>, template |-> <<>>, delay |-> 0,
      i |-> 0, message |-> <<>>,
      results |-> [total |-> 0, success |-> 0, failed |-> 0, details |-> <<>>],
      result |-> NoResult,
      reply |-> NoReply,
      established |-> FALSE,
      rendered |-> <<>>, attempts |-> <<>>, returned |-> <<>>,
      progress |-> <<>>, delays |-> <<>>,
      given |-> [data |-> <<>>, phoneColumn |-> <<>>, template |-> <<>>, delay |-> 0],
      settled |-> <<>> ]

\* new WhatsAppHandler(): client = null, isReady = false; initialize() is
\* called at once and awaits getChromiumPath.  init is the position of
\* initialize(), session the latest event of the client
NewHandler ==
    [ client |-> "null", isReady |-> FALSE, session |-> "none",
      init |-> "chromium" ]

\* a handler whose client has emitted 'ready'
ReadyHandler ==
    [ client |-> "set", isReady |-> TRUE, session |-> "ready",
      init |-> "resolved" ]

IdleGroup == [pc |-> "idle", this |-> 0, participants |-> <<>>, reply |-> NoReply]

\* no function is called on its own
NoCall == [fn |-> "none"]
\* the window is not modelled
NoUi == [view |-> "none"]

\* the application has started: no handler yet
Init ==
    /\ whatsappHandler = 0
    /\ handlers = <<>>
    /\ disconnecting = 0
    /\ runs = [r \in RunIds |-> IdleRun]
    /\ group = IdleGroup
    /\ inflight = {}
    /\ transportLog = <<>>
    /\ call = NoCall
    /\ ui = NoUi

\* the operator has connected and the session is ready
InitConnected ==
    /\ whatsappHandler = 1
    /\ handlers = <<ReadyHandler>>
    /\ disconnecting = 0
    /\ runs = [r \in RunIds |-> IdleRun]
    /\ group = IdleGroup
    /\ inflight = {}
    /\ transportLog = <<>>
    /\ call = NoCall
    /\ ui = NoUi

(***************************************************************************)
(* WhatsAppHandler.sendMessages: the pieces of the loop body               *)
(***************************************************************************)
\* the notification is put in front of the earlier ones
Notify_Prepend(run, n) == [run EXCEPT !.progress = <<n>> \o @]

\* progressCallback(n)
Notify(run, n) == [run EXCEPT !.progress = Append(@, n)]

CurrentRow(run) == run.data[run.i + 1]
CurrentPhone(run) == Cell(CurrentRow(run), run.phoneColumn)

\* the same branch with current: i in its notification
MarkIneligible_ZeroBased(run) ==
    Notify([run EXCEPT
                !.results.failed = @ + 1,
                !.results.details = Append(@, [index |-> run.i, phone |-> NA,
                                               status |-> "failed",
                                               error |-> "No phone number"]),
                !.i = @ + 1],
           [current |-> run.i, total |-> Len(run.data), phone |-> NA,
            status |-> "failed", error |-> "No phone number"])

\* the branch taken when (!phone || phone instanceof Date), up to its continue
MarkIneligible(run) ==
    Notify([run EXCEPT
                !.results.failed = @ + 1,
                !.results.details = Append(@, [index |-> run.i, phone |-> NA,
                                               status |-> "failed",
                                               error |-> "No phone number"]),
                !.i = @ + 1],
           [current |-> run.i + 1, total |-> Len(run.data), phone |-> NA,
            status |-> "failed", error |-> "No phone number"])

\* the rendered text is written back into template
Render_OverwritesTemplate(run) ==
    [run EXCEPT !.message = formatMessage(run.template, CurrentRow(run)),
                !.template = formatMessage(run.template, CurrentRow(run)),
                !.rendered = Append(@, run.i)]

\* const message = this.formatMessage(template, row)
Render(run) ==
    [run EXCEPT !.message = formatMessage(run.template, CurrentRow(run)),
                !.rendered = Append(@, run.i)]

\* no progressCallback call before the send
NotifySending_Silent(run) == run

\* the progressCallback call before the send
NotifySending(run) ==
    Notify(run, [current |-> run.i + 1, total |-> Len(run.data),
                 phone |-> ToText(CurrentPhone(run)),
                 status |-> "sending", error |-> NoError])

\* from the eligible phone up to the call of this.sendMessage(phoneValue, message)
BeforeSend(run) ==
    CHOOSE announced \in
        { [NotifySending(rendered) EXCEPT !.attempts = Append(@, run.i)] :
              rendered \in { Render(run) } } : TRUE

\* the failed branch without results.failed++
RecordOutcome_FailedNotCounted(run) ==
    IF run.result.status = "success"
    THEN Notify([run EXCEPT
                     !.results.success = @ + 1,
                     !.results.details = Append(@, [index |-> run.i,
                                                    phone |-> ToText(CurrentPhone(run)),
                                                    status |-> "success",
                                                    error |-> NoError])],
                [current |-> run.i + 1, total |-> Len(run.data),
                 phone |-> ToText(CurrentPhone(run)),
                 status |-> "success", error |-> NoError])
    ELSE Notify([run EXCEPT
                     !.results.details = Append(@, [index |-> run.i,
                                                    phone |-> ToText(CurrentPhone(run)),
                                                    status |-> "failed",
                                                    error |-> run.result.error])],
                [current |-> run.i + 1, total |-> Len(run.data),
                 phone |-> ToText(CurrentPhone(run)),
                 status |-> "failed", error |-> run.result.error])

\* index: row.__rowIndex in place of index: i
RecordOutcome_SheetIndex(run) ==
    IF run.result.status = "success"
    THEN Notify([run EXCEPT
                     !.results.success = @ + 1,
                     !.results.details = Append(@, [index |-> Cell(CurrentRow(run), RowIndexKey).v[1],
                                                    phone |-> ToText(CurrentPhone(run)),
                                                    status |-> "success",
                                                    error |-> NoError])],
                [current |-> run.i + 1, total |-> Len(run.data),
                 phone |-> ToText(CurrentPhone(run)),
                 status |-> "success", error |-> NoError])
    ELSE Notify([run EXCEPT
                     !.results.failed = @ + 1,
                     !.results.details = Append(@, [index |-> Cell(CurrentRow(run), RowIndexKey).v[1],
                                                    phone |-> ToText(CurrentPhone(run)),
                                                    status |-> "failed",
                                                    error |-> run.result.error])],
                [current |-> run.i + 1, total |-> Len(run.data),
                 phone |-> ToText(CurrentPhone(run)),
                 status |-> "failed", error |-> run.result.error])

\* the two branches on result.status after the send
RecordOutcome(run) ==
    IF run.result.status = "success"
    THEN Notify([run EXCEPT
                     !.results.success = @ + 1,
                     !.results.details = Append(@, [index |-> run.i,
                                                    phone |-> ToText(CurrentPhone(run)),
                                                    status |-> "success",
                                                    error |-> NoError])],
                [current |-> run.i + 1, total |-> Len(run.data),
                 phone |-> ToText(CurrentPhone(run)),
                 status |-> "success", error |-> NoError])
    ELSE Notify([run EXCEPT
                     !.results.failed = @ + 1,
                     !.results.details = Append(@, [index |-> run.i,
                                                    phone |-> ToText(CurrentPhone(run)),
                                                    status |-> "failed",
                                                    error |-> run.result.error])],
                [current |-> run.i + 1, total |-> Len(run.data),
                 phone |-> ToText(CurrentPhone(run)),
                 status |-> "failed", error |-> run.result.error])

\* if (i < data.length): a pause after the last row too
DelayDue_AlsoAfterLast(i, length) == i < length

\* the pause without its if
DelayDue_Always(i, length) == TRUE

\* if (i < data.length - 1)
DelayDue(i, length) == i < length - 1

\* a failed send breaks out of the loop
AfterRow_StopOnFailure(run) ==
    IF run.result.status = "failed"
    THEN [run EXCEPT !.i = Len(run.data), !.result = NoResult, !.pc = "loop"]
    ELSE IF run.i < Len(run.data) - 1
    THEN [run EXCEPT !.delays = Append(@, [after |-> run.i, seconds |-> run.delay]),
                     !.result = NoResult, !.pc = "delay"]
    ELSE [run EXCEPT !.i = @ + 1, !.result = NoResult, !.pc = "loop"]

\* a failed send is tried again: i is not advanced
AfterRow_RetryOnFailure(run) ==
    IF run.result.status = "failed"
    THEN [run EXCEPT !.result = NoResult, !.pc = "loop"]
    ELSE IF run.i < Len(run.data) - 1
    THEN [run EXCEPT !.delays = Append(@, [after |-> run.i, seconds |-> run.delay]),
                     !.result = NoResult, !.pc = "delay"]
    ELSE [run EXCEPT !.i = @ + 1, !.result = NoResult, !.pc = "loop"]

\* the end of the loop body: the pause, or straight on to i++
AfterRow(run) ==
    IF DelayDue(run.i, Len(run.data))
    THEN [run EXCEPT !.delays = Append(@, [after |-> run.i, seconds |-> run.delay]),
                     !.result = NoResult, !.pc = "delay"]
    ELSE [run EXCEPT !.i = @ + 1, !.result = NoResult, !.pc = "loop"]

\* what a call of the client can do: it needs a ready session to succeed; it
\* rejects with an Error or with a value that is no Error
TransportOutcomes(h) ==
    IF handlers[h].session = "ready" THEN {"ok", "error", "nonerror"}
    ELSE {"error", "nonerror"}

\* every rejection is reported as 'Unknown error': no instanceof Error test
MessageResult_AlwaysUnknown(outcome) ==
    CASE outcome = "ok" -> [status |-> "success", error |-> NoError]
      [] outcome = "error" -> [status |-> "failed", error |-> "Unknown error"]
      [] outcome = "nonerror" -> [status |-> "failed", error |-> "Unknown error"]

\* sendMessage's return value for an outcome of client.sendMessage
MessageResult(outcome) ==
    CASE outcome = "ok" -> [status |-> "success", error |-> NoError]
      [] outcome = "error" -> [status |-> "failed", error |-> "Evaluation failed"]
      [] outcome = "nonerror" -> [status |-> "failed", error |-> "Unknown error"]

\* the awaited client.sendMessage has settled with outcome
Settled(run, outcome) ==
    [run EXCEPT !.settled = Append(@, [index |-> run.i, outcome |-> outcome])]

\* this.sendMessage returns result to the loop
SendReturns(run, result) ==
    [run EXCEPT !.result = result,
                !.returned = Append(@, [index |-> run.i, status |-> result.status,
                                        error |-> result.error]),
                !.pc = "await_result"]

\* client.sendMessage(chatId, message) with chatId = formatPhoneNumber(phone)
SendOp(r, run) ==
    [ caller |-> r, op |-> "sendMessage", index |-> run.i,
      to |-> <<formatPhoneNumber(CurrentPhone(run))>>,
      message |-> formatMessage(run.template, CurrentRow(run)) ]

(***************************************************************************)
(* ipcMain.handle('send-messages') and WhatsAppHandler.sendMessages        *)
(***************************************************************************)
\* without a handler the refusal is also reported as the failure of the
\* first row on send-progress
SendMessagesInvoke_NotifiesRefusal(r, inputs) ==
    /\ runs[r].pc = "idle"
    /\ \E options \in inputs :
         runs' = [runs EXCEPT ![r] =
            IF whatsappHandler = 0
            THEN [@ EXCEPT !.pc = "done",
                           !.progress = <<[current |-> 1, total |-> Len(options.data),
                                           phone |-> NA, status |-> "failed",
                                           error |-> "WhatsApp handler not initialized"]>>,
                           !.reply = [sent |-> TRUE, success |-> FALSE,
                                      error |-> "WhatsApp handler not initialized"]]
            ELSE [@ EXCEPT !.pc = "loop", !.this = whatsappHandler,
                           !.data = options.data, !.phoneColumn = PhoneKey,
                           !.template = options.template,
                           !.delay = options.delay, !.i = 0,
                           !.results = [total |-> Len(options.data), success |-> 0,
                                        failed |-> 0, details |-> <<>>],
                           !.given = [data |-> options.data, phoneColumn |-> PhoneKey,
                                      template |-> options.template,
                                      delay |-> options.delay],
                           !.established = handlers[whatsappHandler].client # "null"
                                           /\ handlers[whatsappHandler].isReady]]
    /\ UNCHANGED <<call, ui, whatsappHandler, handlers, disconnecting, group,
                   inflight, transportLog>>

\* the handler is entered with options drawn from inputs: its guard on
\* whatsappHandler, then sendMessages' results object
SendMessagesInvoke(r, inputs) ==
    /\ runs[r].pc = "idle"
    /\ \E options \in inputs :
         runs' = [runs EXCEPT ![r] =
            IF whatsappHandler = 0
            THEN [@ EXCEPT !.pc = "done",
                           !.reply = [sent |-> TRUE, success |-> FALSE,
                                      error |-> "WhatsApp handler not initialized"]]
            ELSE [@ EXCEPT !.pc = "loop", !.this = whatsappHandler,
                           !.data = options.data, !.phoneColumn = PhoneKey,
                           !.template = options.template,
                           !.delay = options.delay, !.i = 0,
                           !.results = [total |-> Len(options.data), success |-> 0,
                                        failed |-> 0, details |-> <<>>],
                           !.given = [data |-> options.data, phoneColumn |-> PhoneKey,
                                      template |-> options.template,
                                      delay |-> options.delay],
                           !.established = handlers[whatsappHandler].client # "null"
                                           /\ handlers[whatsappHandler].isReady]]
    /\ UNCHANGED <<call, ui, whatsappHandler, handlers, disconnecting, group,
                   inflight, transportLog>>

\* the loop test has failed: return results, and the handler replies
SendMessagesReturn(r) ==
    /\ runs[r].pc = "loop"
    /\ ~(runs[r].i < Len(runs[r].data))
    /\ runs' = [runs EXCEPT ![r].pc = "done",
                            ![r].reply = [sent |-> TRUE, success |-> TRUE, error |-> NoError]]
    /\ UNCHANGED <<call, ui, whatsappHandler, handlers, disconnecting, group,
                   inflight, transportLog>>

\* the pause is taken after a row without a usable phone too
RowIneligible_Pauses(r) ==
    /\ runs[r].pc = "loop"
    /\ runs[r].i < Len(runs[r].data)
    /\ ~Eligible(CurrentPhone(runs[r]))
    /\ runs' = [runs EXCEPT ![r] =
                  IF DelayDue(runs[r].i, Len(runs[r].data))
                  THEN [MarkIneligible(@) EXCEPT
                            !.i = runs[r].i,
                            !.delays = Append(@, [after |-> runs[r].i,
                                                  seconds |-> runs[r].delay]),
                            !.pc = "delay"]
                  ELSE MarkIneligible(@)]
    /\ UNCHANGED <<call, ui, whatsappHandler, handlers, disconnecting, group,
                   inflight, transportLog>>

\* a row without a usable phone: recorded, notified, continue
RowIneligible(r) ==
    /\ runs[r].pc = "loop"
    /\ runs[r].i < Len(runs[r].data)
    /\ ~Eligible(CurrentPhone(runs[r]))
    /\ runs' = [runs EXCEPT ![r] = MarkIneligible(@)]
    /\ UNCHANGED <<call, ui, whatsappHandler, handlers, disconnecting, group,
                   inflight, transportLog>>

\* a row with a phone, the client is null: sendMessage throws inside its try
\* and returns a failed result
RowSendNoClient(r) ==
    /\ runs[r].pc = "loop"
    /\ runs[r].i < Len(runs[r].data)
    /\ Eligible(CurrentPhone(runs[r]))
    /\ handlers[runs[r].this].client = "null"
    /\ runs' = [runs EXCEPT ![r] =
                  SendReturns(BeforeSend(@),
                              [status |-> "failed",
                               error |-> "WhatsApp client not initialized"])]
    /\ UNCHANGED <<call, ui, whatsappHandler, handlers, disconnecting, group,
                   inflight, transportLog>>

\* the call of client.sendMessage is not awaited: the loop goes on at once
RowSend_NoAwait(r) ==
    /\ runs[r].pc = "loop"
    /\ runs[r].i < Len(runs[r].data)
    /\ Eligible(CurrentPhone(runs[r]))
    /\ handlers[runs[r].this].client # "null"
    /\ runs' = [runs EXCEPT ![r] = [BeforeSend(@) EXCEPT !.i = @ + 1, !.pc = "loop"]]
    /\ inflight' = inflight \cup {[caller |-> r, index |-> runs[r].i]}
    /\ transportLog' = Append(transportLog, SendOp(r, runs[r]))
    /\ UNCHANGED <<call, ui, whatsappHandler, handlers, disconnecting, group>>

\* a row with a phone: render, notify 'sending', call client.sendMessage and
\* await it
RowSend(r) ==
    /\ runs[r].pc = "loop"
    /\ runs[r].i < Len(runs[r].data)
    /\ Eligible(CurrentPhone(runs[r]))
    /\ handlers[runs[r].this].client # "null"
    /\ runs' = [runs EXCEPT ![r] = [BeforeSend(@) EXCEPT !.pc = "await_transport"]]
    /\ inflight' = inflight \cup {[caller |-> r, index |-> runs[r].i]}
    /\ transportLog' = Append(transportLog, SendOp(r, runs[r]))
    /\ UNCHANGED <<call, ui, whatsappHandler, handlers, disconnecting, group>>

\* sendMessage without its catch: a rejection of client.sendMessage leaves
\* sendMessages as an exception and the handler replies success: false
TransportSettle_Rethrows(r) ==
    /\ runs[r].pc = "await_transport"
    /\ \E outcome \in TransportOutcomes(runs[r].this) :
         runs' = [runs EXCEPT ![r] =
                    IF outcome = "ok"
                    THEN SendReturns(Settled(@, outcome), MessageResult(outcome))
                    ELSE [Settled(@, outcome) EXCEPT
                              !.pc = "done",
                              !.reply = [sent |-> TRUE, success |-> FALSE,
                                         error |-> MessageResult(outcome).error]]]
    /\ inflight' = inflight \ {[caller |-> r, index |-> runs[r].i]}
    /\ UNCHANGED <<call, ui, whatsappHandler, handlers, disconnecting, group, transportLog>>

\* client.sendMessage settles and sendMessage returns its result
TransportSettle(r) ==
    /\ runs[r].pc = "await_transport"
    /\ \E outcome \in TransportOutcomes(runs[r].this) :
         runs' = [runs EXCEPT ![r] = SendReturns(Settled(@, outcome),
                                                 MessageResult(outcome))]
    /\ inflight' = inflight \ {[caller |-> r, index |-> runs[r].i]}
    /\ UNCHANGED <<call, ui, whatsappHandler, handlers, disconnecting, group, transportLog>>

\* sendMessages resumes with the result: outcome, notification, delay policy
RowRecord(r) ==
    /\ runs[r].pc = "await_result"
    /\ runs' = [runs EXCEPT ![r] = AfterRow(RecordOutcome(@))]
    /\ UNCHANGED <<call, ui, whatsappHandler, handlers, disconnecting, group,
                   inflight, transportLog>>

\* the setTimeout of the pause fires
DelayElapsed(r) ==
    /\ runs[r].pc = "delay"
    /\ runs' = [runs EXCEPT ![r].i = @ + 1, ![r].pc = "loop"]
    /\ UNCHANGED <<call, ui, whatsappHandler, handlers, disconnecting, group,
                   inflight, transportLog>>

(***************************************************************************)
(* ipcMain.handle('create-group') and WhatsAppHandler.createGroupFromExcel *)
(***************************************************************************)
\* the formatted phones of the rows that have one
RECURSIVE Participants(_, _)
Participants(data, phoneColumn) ==
    IF data = <<>> THEN <<>>
    ELSE (IF Eligible(Cell(Head(data), phoneColumn))
          THEN <<formatPhoneNumber(Cell(Head(data), phoneColumn))>>
          ELSE <<>>) \o Participants(Tail(data), phoneColumn)

\* the error the handler replies with before any call of the client, or NoError
CreateGroupError(data) ==
    IF whatsappHandler = 0 THEN "WhatsApp handler not initialized"
    ELSE IF handlers[whatsappHandler].client = "null" THEN "WhatsApp client not initialized"
    ELSE IF Participants(data, PhoneKey) = <<>>
         THEN "No valid phone numbers found in the Excel file"
    ELSE NoError

\* create-group replies success: false without calling the client
CreateGroupRefused ==
    /\ group.pc = "idle"
    /\ \E data \in GroupDataInputs :
         /\ CreateGroupError(data) # NoError
         /\ group' = [group EXCEPT !.pc = "done",
                                   !.reply = [sent |-> TRUE, success |-> FALSE,
                                              error |-> CreateGroupError(data)]]
    /\ UNCHANGED <<call, ui, whatsappHandler, handlers, disconnecting, runs, inflight, transportLog>>

\* create-group reads the sheet and calls client.createGroup
CreateGroupSend ==
    /\ group.pc = "idle"
    /\ \E data \in GroupDataInputs :
         /\ CreateGroupError(data) = NoError
         /\ group' = [group EXCEPT !.pc = "await_transport", !.this = whatsappHandler,
                                   !.participants = Participants(data, PhoneKey)]
         /\ transportLog' = Append(transportLog,
                [ caller |-> GroupCaller, op |-> "createGroup", index |-> 0,
                  to |-> Participants(data, PhoneKey), message |-> <<>> ])
    /\ inflight' = inflight \cup {[caller |-> GroupCaller, index |-> 0]}
    /\ UNCHANGED <<call, ui, whatsappHandler, handlers, disconnecting, runs>>

\* client.createGroup settles and create-group replies
CreateGroupSettle ==
    /\ group.pc = "await_transport"
    /\ \E outcome \in TransportOutcomes(group.this) :
         group' = [group EXCEPT !.pc = "done",
                                !.reply = [sent |-> TRUE, success |-> outcome = "ok",
                                           error |-> MessageResult(outcome).error]]
    /\ inflight' = inflight \ {[caller |-> GroupCaller, index |-> 0]}
    /\ UNCHANGED <<call, ui, whatsappHandler, handlers, disconnecting, runs, transportLog>>

(***************************************************************************)
(* The session: init-whatsapp, WhatsAppHandler.initialize, the client's    *)
(* events, disconnect-whatsapp and WhatsAppHandler.destroy                 *)
(***************************************************************************)
\* whatsappHandler = new WhatsAppHandler(); initialize() starts and awaits
\* getChromiumPath
InitWhatsapp ==
    /\ Len(handlers) < MaxHandlers
    /\ handlers' = Append(handlers, NewHandler)
    /\ whatsappHandler' = Len(handlers) + 1
    /\ UNCHANGED <<call, ui, disconnecting, runs, group, inflight, transportLog>>

\* this.client = new Client(...), the listeners, and client.initialize() is awaited
ClientCreate(h) ==
    /\ handlers[h].session = "none"
    /\ handlers' = [handlers EXCEPT ![h].client = "set", ![h].session = "starting",
                                    ![h].init = "client"]
    /\ UNCHANGED <<call, ui, whatsappHandler, disconnecting, runs, group, inflight, transportLog>>

\* client.on('ready')
ClientReady(h) ==
    /\ handlers[h].session = "starting"
    /\ handlers' = [handlers EXCEPT ![h].session = "ready", ![h].isReady = TRUE]
    /\ UNCHANGED <<call, ui, whatsappHandler, disconnecting, runs, group, inflight, transportLog>>

\* client.on('auth_failure'): the listener only forwards the event; the
\* session will not become ready
ClientAuthFailure(h) ==
    /\ handlers[h].session = "starting"
    /\ handlers' = [handlers EXCEPT ![h].session = "auth_failure"]
    /\ UNCHANGED <<call, ui, whatsappHandler, disconnecting, runs, group, inflight, transportLog>>

\* await this.client.initialize() returns: the promise with the setInterval
\* of checkReady is created and returned
ClientInitialized(h) ==
    /\ handlers[h].init = "client"
    /\ handlers' = [handlers EXCEPT ![h].init = "polling"]
    /\ UNCHANGED <<call, ui, whatsappHandler, disconnecting, runs, group, inflight, transportLog>>

\* this.client.initialize() rejects: initialize() rejects and init-whatsapp
\* replies success: false
ClientInitializeRejected(h) ==
    /\ handlers[h].init = "client"
    /\ handlers[h].session \in {"starting", "auth_failure", "destroyed"}
    /\ handlers' = [handlers EXCEPT ![h].init = "rejected"]
    /\ UNCHANGED <<call, ui, whatsappHandler, disconnecting, runs, group, inflight, transportLog>>

\* a checkReady that gives up waiting: the tick resolves whatever isReady is
PollResolve_Timeout(h) ==
    /\ handlers[h].init = "polling"
    /\ handlers' = [handlers EXCEPT ![h].init = "resolved"]
    /\ UNCHANGED <<call, ui, whatsappHandler, disconnecting, runs, group, inflight, transportLog>>

\* a tick of checkReady that finds isReady: clearInterval and resolve(); a
\* tick that does not find it changes nothing
PollResolve(h) ==
    /\ handlers[h].init = "polling"
    /\ handlers[h].isReady
    /\ handlers' = [handlers EXCEPT ![h].init = "resolved"]
    /\ UNCHANGED <<call, ui, whatsappHandler, disconnecting, runs, group, inflight, transportLog>>

\* a 'disconnected' listener that also abandons the campaigns of its handler
ClientDisconnected_CancelsRun(h) ==
    /\ handlers[h].session = "ready"
    /\ handlers' = [handlers EXCEPT ![h].session = "disconnected", ![h].isReady = FALSE]
    /\ runs' = [r \in RunIds |->
                  IF runs[r].this = h /\ runs[r].pc \notin {"idle", "done"}
                  THEN [runs[r] EXCEPT !.pc = "cancelled"]
                  ELSE runs[r]]
    /\ UNCHANGED <<call, ui, whatsappHandler, disconnecting, group, inflight, transportLog>>

\* client.on('disconnected')
ClientDisconnected(h) ==
    /\ handlers[h].session = "ready"
    /\ handlers' = [handlers EXCEPT ![h].session = "disconnected", ![h].isReady = FALSE]
    /\ UNCHANGED <<call, ui, whatsappHandler, disconnecting, runs, group, inflight, transportLog>>

\* disconnect-whatsapp with a handler: destroy() is called; with a client it
\* awaits client.destroy(), without one it returns and whatsappHandler = null
DisconnectWhatsapp ==
    /\ disconnecting = 0
    /\ whatsappHandler # 0
    /\ IF handlers[whatsappHandler].client = "null"
       THEN whatsappHandler' = 0 /\ UNCHANGED disconnecting
       ELSE disconnecting' = whatsappHandler /\ UNCHANGED whatsappHandler
    /\ UNCHANGED <<call, ui, handlers, runs, group, inflight, transportLog>>

\* a destroy that also ends the campaigns of the handler with a failure
DestroyResolved_AbortsRuns ==
    /\ disconnecting # 0
    /\ handlers' = [handlers EXCEPT ![disconnecting].client = "null",
                                    ![disconnecting].isReady = FALSE,
                                    ![disconnecting].session = "destroyed"]
    /\ whatsappHandler' = 0
    /\ disconnecting' = 0
    /\ runs' = [r \in RunIds |->
                  IF runs[r].this = disconnecting /\ runs[r].pc \notin {"idle", "done"}
                  THEN [runs[r] EXCEPT !.pc = "done",
                                       !.reply = [sent |-> TRUE, success |-> FALSE,
                                                  error |-> "Session closed"]]
                  ELSE runs[r]]
    /\ UNCHANGED <<call, ui, group, inflight, transportLog>>

\* client.destroy() resolves: client = null, isReady = false, whatsappHandler = null
DestroyResolved ==
    /\ disconnecting # 0
    /\ handlers' = [handlers EXCEPT ![disconnecting].client = "null",
                                    ![disconnecting].isReady = FALSE,
                                    ![disconnecting].session = "destroyed"]
    /\ whatsappHandler' = 0
    /\ disconnecting' = 0
    /\ UNCHANGED <<call, ui, runs, group, inflight, transportLog>>

(***************************************************************************)
(* formatMessage, formatPhoneNumber and the eligibility test, each called  *)
(* on its own with arguments of every shape                                *)
(***************************************************************************)
MaxCalls == 2

\* what a cell of a row can hold, by name
PureCellKinds == { "undefined", "empty", "a", "{P}", "{N}", "50", "date" }

PureCellOf(kind) ==
    CASE kind = "undefined" -> Undefined
      [] kind = "empty" -> Str(<<>>)
      [] kind = "a" -> Str(<<"a">>)
      [] kind = "{P}" -> Str(<<"{", "P", "}">>)
      [] kind = "{N}" -> Str(<<"{", "N", "}">>)
      [] kind = "50" -> Num(50)
      [] kind = "date" -> DateCell(<<1, 2, 2024>>)

\* rows of one or two columns after __rowIndex, the two in either key order
PureRowShapes == [order : {"N", "NP", "PN"}, n : PureCellKinds, p : PureCellKinds]

PureRowOf(shape) ==
    << <<RowIndexKey, Num(0)>> >>
    \o (CASE shape.order = "N" -> << <<NameKey, PureCellOf(shape.n)>> >>
          [] shape.order = "NP" -> << <<NameKey, PureCellOf(shape.n)>>,
                                     <<PhoneKey, PureCellOf(shape.p)>> >>
          [] shape.order = "PN" -> << <<PhoneKey, PureCellOf(shape.p)>>,
                                     <<NameKey, PureCellOf(shape.n)>> >>)

\* templates: a placeholder once, twice, two of them, one of no column (M),
\* and text that is no well-formed placeholder
PureTemplates ==
    { <<>>,
      <<"x">>,
      <<"{", "N", "}">>,
      <<"{", "N", "}", "-", "{", "N", "}">>,
      <<"{", "N", "}", "{", "P", "}">>,
      <<"{", "P", "}", "{", "N", "}">>,
      <<"H", "i", " ", "{", "M", "}">>,
      <<"{", "M", "}", "{", "N", "}", "{", "M", "}">>,
      <<"{", "N">>,
      <<"{", "{", "N", "}", "}">>,
      <<"}", "N", "{">> }

\* the values formatPhoneNumber is given, by name: text and numbers
PurePhoneKinds == { "+1 (234) 567-8901", "12", "a1b2", "-", "007", "n0", "n7", "n12", "n305" }

PurePhoneOf(kind) ==
    CASE kind = "+1 (234) 567-8901" ->
             Str(<<"+", "1", " ", "(", "2", "3", "4", ")", " ",
                   "5", "6", "7", "-", "8", "9", "0", "1">>)
      [] kind = "12" -> Str(<<"1", "2">>)
      [] kind = "a1b2" -> Str(<<"a", "1", "b", "2">>)
      [] kind = "-" -> Str(<<"-">>)
      [] kind = "007" -> Str(<<"0", "0", "7">>)
      [] kind = "n0" -> Num(0)
      [] kind = "n7" -> Num(7)
      [] kind = "n12" -> Num(12)
      [] kind = "n305" -> Num(305)

\* the phone cells the eligibility test is given, by name: the key absent,
\* undefined, empty, text, a number, zero, a date
EligibilityKinds == { "absent", "undefined", "empty", "12", "x", "n0", "n12", "date" }

EligibilityRowOf(kind) ==
    << <<RowIndexKey, Num(0)>> >>
    \o (CASE kind = "absent" -> <<>>
          [] kind = "undefined" -> << <<PhoneKey, Undefined>> >>
          [] kind = "empty" -> << <<PhoneKey, Str(<<>>)>> >>
          [] kind = "12" -> << <<PhoneKey, Str(<<"1", "2">>)>> >>
          [] kind = "x" -> << <<PhoneKey, Str(<<"x">>)>> >>
          [] kind = "n0" -> << <<PhoneKey, Num(0)>> >>
          [] kind = "n12" -> << <<PhoneKey, Num(12)>> >>
          [] kind = "date" -> << <<PhoneKey, DateCell(<<1, 2, 2024>>)>> >>)
    \o << <<NameKey, Str(<<"a">>)>> >>

\* a call before it is made: the function, its arguments, and a copy of the
\* arguments kept for the properties; outs collects what the calls return
NewCall(fn, template, rowData, phone) ==
    [ fn |-> fn, template |-> template, rowData |-> rowData, phone |-> phone,
      given |-> [template |-> template, rowData |-> rowData, phone |-> phone],
      outs |-> <<>> ]

\* nothing else of the program runs; one function is given its arguments
InitPure ==
    /\ whatsappHandler = 0
    /\ handlers = <<>>
    /\ disconnecting = 0
    /\ runs = [r \in RunIds |-> IdleRun]
    /\ group = IdleGroup
    /\ inflight = {}
    /\ transportLog = <<>>
    /\ \/ \E t \in PureTemplates, shape \in PureRowShapes :
              call = NewCall("formatMessage", t, PureRowOf(shape), Undefined)
       \/ \E kind \in PurePhoneKinds :
              call = NewCall("formatPhoneNumber", <<>>, <<>>, PurePhoneOf(kind))
       \/ \E kind \in EligibilityKinds :
              call = NewCall("eligibility", <<>>, EligibilityRowOf(kind), Undefined)
    /\ ui = NoUi

\* a formatMessage that deletes from the row the columns it has used
FormatMessageCall_ConsumesRow ==
    /\ call.fn = "formatMessage"
    /\ Len(call.outs) < MaxCalls
    /\ call' = [call EXCEPT !.outs = Append(@, formatMessage(call.template, call.rowData)),
                            !.rowData = SelectSeq(@, LAMBDA pair : pair[1] = RowIndexKey)]
    /\ UNCHANGED <<whatsappHandler, handlers, disconnecting, runs, group,
                   inflight, transportLog, ui>>

\* formatMessage(template, rowData): message is a local; the row is only read
FormatMessageCall ==
    /\ call.fn = "formatMessage"
    /\ Len(call.outs) < MaxCalls
    /\ call' = [call EXCEPT !.outs = Append(@, formatMessage(call.template, call.rowData))]
    /\ UNCHANGED <<whatsappHandler, handlers, disconnecting, runs, group,
                   inflight, transportLog, ui>>

\* formatPhoneNumber(phone)
FormatPhoneNumberCall ==
    /\ call.fn = "formatPhoneNumber"
    /\ Len(call.outs) < MaxCalls
    /\ call' = [call EXCEPT !.outs = Append(@, formatPhoneNumber(call.phone))]
    /\ UNCHANGED <<whatsappHandler, handlers, disconnecting, runs, group,
                   inflight, transportLog, ui>>

\* a run of sendMessages over the one row, at the top of its loop
OneRowRun(row) ==
    [IdleRun EXCEPT !.pc = "loop", !.data = <<row>>, !.phoneColumn = PhoneKey,
                    !.results = [total |-> 1, success |-> 0, failed |-> 0, details |-> <<>>]]

\* const row = data[i]; const phone = row[phoneColumn]; the test
\* (!phone || phone instanceof Date) and, when it holds, its branch
EligibilityCall ==
    /\ call.fn = "eligibility"
    /\ Len(call.outs) < MaxCalls
    /\ LET run == OneRowRun(call.rowData) IN
       call' = [call EXCEPT !.outs = Append(@,
                   IF Eligible(CurrentPhone(run))
                   THEN [eligible |-> TRUE, run |-> run]
                   ELSE [eligible |-> FALSE, run |-> MarkIneligible(run)])]
    /\ UNCHANGED <<whatsappHandler, handlers, disconnecting, runs, group,
                   inflight, transportLog, ui>>

(***************************************************************************)
(* The window: App's state, its handlers for the sheet, the selection and  *)
(* the send button, and the 'send-progress' listener                       *)
(***************************************************************************)
MaxDialogs == 2
MaxEvents == 2

\* useState<number>(5)
DefaultDelay == 5

\* results: null
NullResults == [null |-> TRUE, total |-> 0, success |-> 0, failed |-> 0]

\* no invocation of send-messages has been made
NoInvocation == [data |-> <<>>, phoneColumn |-> <<>>, template |-> <<>>, delay |-> 0]

\* App's useState calls; excelData is null until a sheet is loaded; rows are
\* named by their __rowIndex. history records the dialogs answered and the
\* invocations made, invoked the options of the latest invocation, pending
\* that its reply is outstanding, events the progress events it has caused,
\* outstanding the invocations not yet replied to, received the progress
\* events since the logs were emptied (oldest first), rendering the
\* QRCode.toDataURL calls not yet resolved
InitialApp ==
    [ view |-> "app",
      connectionStatus |-> "disconnected", qrCode |-> "", rendering |-> 0,
      hasData |-> FALSE, allExcelData |-> <<>>, excelData |-> <<>>,
      phoneColumn |-> <<>>, messageTemplate |-> <<>>, delay |-> DefaultDelay,
      selectedRows |-> <<>>,
      isSending |-> FALSE,
      progress |-> [current |-> 0, total |-> 0],
      results |-> NullResults,
      logs |-> <<>>,
      pending |-> FALSE, events |-> 0, invoked |-> NoInvocation, history |-> <<>>,
      outstanding |-> 0, received |-> <<>> ]

\* App once 'whatsapp-ready' has been handled: the Browse button is enabled
ConnectedApp == [InitialApp EXCEPT !.connectionStatus = "connected"]

\* the operator has connected; the window is what moves from here
InitUI ==
    /\ whatsappHandler = 1
    /\ handlers = <<ReadyHandler>>
    /\ disconnecting = 0
    /\ runs = [r \in RunIds |-> IdleRun]
    /\ group = IdleGroup
    /\ inflight = {}
    /\ transportLog = <<>>
    /\ call = NoCall
    /\ ui = ConnectedApp

\* loadSheet after read-excel has replied success with n rows: called by
\* handleSelectFile (the Browse button, enabled while connected) and by
\* handleSheetChange (the sheet select of a file chosen before)
LoadSheet ==
    /\ ui.connectionStatus = "connected" \/ ui.hasData
    /\ \E n \in 0..MaxRows :
         ui' = [ui EXCEPT !.hasData = TRUE,
                          !.allExcelData = [k \in 1..n |-> k - 1],
                          !.excelData = [k \in 1..n |-> k - 1],
                          !.selectedRows = <<>>,
                          !.phoneColumn = <<>>]
    /\ UNCHANGED <<call, whatsappHandler, handlers, disconnecting, runs, group,
                   inflight, transportLog>>

\* the phone column select: shown with a loaded sheet that has columns
SetPhoneColumn ==
    /\ ui.hasData /\ ui.excelData # <<>>
    /\ ui.phoneColumn # PhoneKey
    /\ ui' = [ui EXCEPT !.phoneColumn = PhoneKey]
    /\ UNCHANGED <<call, whatsappHandler, handlers, disconnecting, runs, group,
                   inflight, transportLog>>

\* the template textarea: shown with a loaded sheet
SetMessageTemplate ==
    /\ ui.hasData
    /\ \E t \in Templates \cup {<<>>} :
         /\ t # ui.messageTemplate
         /\ ui' = [ui EXCEPT !.messageTemplate = t]
    /\ UNCHANGED <<call, whatsappHandler, handlers, disconnecting, runs, group,
                   inflight, transportLog>>

\* toggleRowSelection(index) from the checkbox of a listed row
ToggleRowSelection ==
    /\ ui.hasData
    /\ \E index \in 0..(Len(ui.excelData) - 1) :
         ui' = [ui EXCEPT !.selectedRows =
                   IF \E k \in 1..Len(@) : @[k] = index
                   THEN SelectSeq(@, LAMBDA i : i # index)
                   ELSE Append(@, index)]
    /\ UNCHANGED <<call, whatsappHandler, handlers, disconnecting, runs, group,
                   inflight, transportLog>>

\* the rows handleSendMessages sends: the selected ones in the order they
\* were selected, or all of them
DataToSend(app) ==
    IF Len(app.selectedRows) > 0
    THEN [k \in 1..Len(app.selectedRows) |-> app.excelData[app.selectedRows[k] + 1]]
    ELSE app.excelData

\* a send button that stays enabled while a campaign is being sent
SendButtonEnabled_WhileSending(app) ==
    app.hasData /\ app.phoneColumn # <<>> /\ app.messageTemplate # <<>>

\* the send button is on screen and enabled
SendButtonEnabled(app) ==
    /\ app.hasData /\ app.phoneColumn # <<>> /\ app.messageTemplate # <<>>
    /\ ~app.isSending

\* the options object of ipcRenderer.invoke('send-messages', ...)
InvokeOptions(app) ==
    [ data |-> DataToSend(app), phoneColumn |-> app.phoneColumn,
      template |-> app.messageTemplate, delay |-> app.delay ]

\* handleSendMessages up to its await, for the answer given to confirm()
AfterConfirm(app, answer) ==
    IF ~answer
    THEN [app EXCEPT !.history = Append(@, "declined")]
    ELSE [app EXCEPT !.isSending = TRUE,
                     !.results = NullResults,
                     !.logs = <<>>,
                     !.progress = [current |-> 0, total |-> Len(DataToSend(app))],
                     !.pending = TRUE, !.events = 0, !.received = <<>>,
                     !.outstanding = @ + 1,
                     !.invoked = InvokeOptions(app),
                     !.history = @ \o <<"accepted", "invoke">>]

\* the dialogs shown so far
Dialogs(app) == Len(SelectSeq(app.history, LAMBDA e : e # "invoke"))

\* handleSendMessages without the confirm() test: the dialog is shown and
\* the campaign is started whatever the answer
HandleSendMessages_NoConfirm ==
    /\ SendButtonEnabled(ui)
    /\ Dialogs(ui) < MaxDialogs
    /\ \E answer \in BOOLEAN :
         ui' = [AfterConfirm(ui, TRUE) EXCEPT
                   !.history = ui.history
                       \o <<IF answer THEN "accepted" ELSE "declined", "invoke">>]
    /\ UNCHANGED <<call, whatsappHandler, handlers, disconnecting, runs, group,
                   inflight, transportLog>>

\* a click on the send button: handleSendMessages from its first line to
\* its return (confirm declined) or its await (confirm accepted)
HandleSendMessages ==
    /\ SendButtonEnabled(ui)
    /\ Dialogs(ui) < MaxDialogs
    /\ \E answer \in BOOLEAN : ui' = AfterConfirm(ui, answer)
    /\ UNCHANGED <<call, whatsappHandler, handlers, disconnecting, runs, group,
                   inflight, transportLog>>

\* the progress notifications the main process can send next: after a
\* 'sending' the outcome of that row, else the next row's 'sending' or its
\* failure for want of a phone
ProgressInputs(app) ==
    IF app.logs # <<>> /\ app.logs[1].status = "sending"
    THEN { [current |-> app.progress.current, total |-> Len(app.invoked.data),
            phone |-> <<"1", "2">>, status |-> "success", error |-> NoError],
           [current |-> app.progress.current, total |-> Len(app.invoked.data),
            phone |-> <<"1", "2">>, status |-> "failed", error |-> "Evaluation failed"] }
    ELSE IF app.progress.current < Len(app.invoked.data)
    THEN { [current |-> app.progress.current + 1, total |-> Len(app.invoked.data),
            phone |-> <<"1", "2">>, status |-> "sending", error |-> NoError],
           [current |-> app.progress.current + 1, total |-> Len(app.invoked.data),
            phone |-> NA, status |-> "failed", error |-> "No phone number"] }
    ELSE {}

\* a slice that keeps ten earlier entries
Slice9_Ten(prev) == SubSeq(prev, 1, IF Len(prev) < 10 THEN Len(prev) ELSE 10)

\* prev.slice(0, 9)
Slice9(prev) == SubSeq(prev, 1, IF Len(prev) < 9 THEN Len(prev) ELSE 9)

\* the 'send-progress' listener, for at most n events of a campaign
OnSendProgressUpTo(n) ==
    /\ ui.pending
    /\ ui.events < n
    /\ \E progressData \in ProgressInputs(ui) :
         ui' = [ui EXCEPT !.progress = [current |-> progressData.current,
                                        total |-> progressData.total],
                          !.logs = << [phone |-> progressData.phone,
                                       status |-> progressData.status,
                                       error |-> progressData.error] >> \o Slice9(@),
                          !.received = Append(@, [phone |-> progressData.phone,
                                                   status |-> progressData.status,
                                                   error |-> progressData.error]),
                          !.events = @ + 1]
    /\ UNCHANGED <<call, whatsappHandler, handlers, disconnecting, runs, group,
                   inflight, transportLog>>

OnSendProgress == OnSendProgressUpTo(MaxEvents)

\* the invoke resolves and handleSendMessages runs to its end
OnSendMessagesReply ==
    /\ ui.pending
    /\ \E success \in BOOLEAN, sent \in {0, Len(ui.invoked.data)} :
         ui' = [ui EXCEPT !.isSending = FALSE,
                          !.pending = FALSE,
                          !.outstanding = @ - 1,
                          !.results =
                              IF success
                              THEN [null |-> FALSE,
                                    total |-> Len(ui.invoked.data),
                                    success |-> sent,
                                    failed |-> Len(ui.invoked.data) - sent]
                              ELSE @]
    /\ UNCHANGED <<call, whatsappHandler, handlers, disconnecting, runs, group,
                   inflight, transportLog>>

NextUI ==
    \/ LoadSheet
    \/ SetPhoneColumn
    \/ SetMessageTemplate
    \/ ToggleRowSelection
    \/ HandleSendMessages
    \/ OnSendProgress
    \/ OnSendMessagesReply

SpecUI == InitUI /\ [][NextUI]_vars

(***************************************************************************)
(* The selection: Apply Range, the select-all checkbox, Clear Selection    *)
(***************************************************************************)
\* what parseInt(String(rowStart)) can give for the text of a row input:
\* NaN or an integer
RowInputs ==
    {[nan |-> TRUE, n |-> 0]} \cup {[nan |-> FALSE, n |-> v] : v \in -1..(MaxRows + 1)}

\* parsed || fallback
OrElse(parsed, fallback) == IF parsed.nan \/ parsed.n = 0 THEN fallback ELSE parsed.n

\* Math.max(1, parseInt(String(rowStart)) || 1)
RangeStart(rowStart) ==
    IF OrElse(rowStart, 1) < 1 THEN 1 ELSE OrElse(rowStart, 1)

\* Math.min(allExcelData.length, parseInt(String(rowEnd)) || allExcelData.length)
RangeEnd(all, rowEnd) ==
    IF OrElse(rowEnd, Len(all)) > Len(all) THEN Len(all) ELSE OrElse(rowEnd, Len(all))

\* a handleRowRangeChange that leaves the selection as it was
AfterRowRange_KeepsSelection(app, rowStart, rowEnd) ==
    IF RangeStart(rowStart) > RangeEnd(app.allExcelData, rowEnd)
    THEN app
    ELSE [app EXCEPT !.excelData = SubSeq(app.allExcelData, RangeStart(rowStart),
                                          RangeEnd(app.allExcelData, rowEnd))]

\* handleRowRangeChange for the texts of the two row inputs
AfterRowRange(app, rowStart, rowEnd) ==
    IF RangeStart(rowStart) > RangeEnd(app.allExcelData, rowEnd)
    THEN app
    ELSE [app EXCEPT !.excelData = SubSeq(app.allExcelData, RangeStart(rowStart),
                                          RangeEnd(app.allExcelData, rowEnd)),
                     !.selectedRows = <<>>]

\* the Apply Range button, shown with a loaded sheet
HandleRowRangeChange ==
    /\ ui.hasData
    /\ \E rowStart \in RowInputs, rowEnd \in RowInputs :
         ui' = AfterRowRange(ui, rowStart, rowEnd)
    /\ UNCHANGED <<call, whatsappHandler, handlers, disconnecting, runs, group,
                   inflight, transportLog>>

\* toggleSelectAll from the checkbox above the rows
ToggleSelectAll ==
    /\ ui.hasData
    /\ ui' = [ui EXCEPT !.selectedRows =
                  IF Len(@) = Len(ui.excelData)
                  THEN <<>>
                  ELSE [k \in 1..Len(ui.excelData) |-> k - 1]]
    /\ UNCHANGED <<call, whatsappHandler, handlers, disconnecting, runs, group,
                   inflight, transportLog>>

\* the Clear Selection button, shown while rows are selected
ClearSelection ==
    /\ ui.hasData
    /\ Len(ui.selectedRows) > 0
    /\ ui' = [ui EXCEPT !.selectedRows = <<>>]
    /\ UNCHANGED <<call, whatsappHandler, handlers, disconnecting, runs, group,
                   inflight, transportLog>>

\* messagesToSend, the 'Total messages' of the summary
MessagesToSend(app) ==
    IF Len(app.selectedRows) > 0 THEN Len(app.selectedRows) ELSE Len(app.excelData)

\* the operator loads sheets, narrows the range, selects rows and starts
\* campaigns
NextSelect ==
    \/ LoadSheet
    \/ HandleRowRangeChange
    \/ ToggleRowSelection
    \/ ToggleSelectAll
    \/ ClearSelection
    \/ SetPhoneColumn
    \/ SetMessageTemplate
    \/ HandleSendMessages
    \/ OnSendMessagesReply

SpecSelect == InitUI /\ [][NextSelect]_vars

(***************************************************************************)
(* The progress log over a campaign long enough to fill it                 *)
(***************************************************************************)
LogRows == 6
MaxLogEvents == 11

\* App with a sheet of LogRows rows loaded, the phone column chosen and a
\* template typed
LogSheet ==
    [ConnectedApp EXCEPT !.hasData = TRUE,
                         !.allExcelData = [k \in 1..LogRows |-> k - 1],
                         !.excelData = [k \in 1..LogRows |-> k - 1],
                         !.phoneColumn = PhoneKey,
                         !.messageTemplate = CHOOSE t \in Templates : TRUE]

InitLog ==
    /\ whatsappHandler = 1
    /\ handlers = <<ReadyHandler>>
    /\ disconnecting = 0
    /\ runs = [r \in RunIds |-> IdleRun]
    /\ group = IdleGroup
    /\ inflight = {}
    /\ transportLog = <<>>
    /\ call = NoCall
    /\ ui = LogSheet

\* campaigns over the sheet and the progress events of each
NextLog ==
    \/ HandleSendMessages
    \/ OnSendProgressUpTo(MaxLogEvents)
    \/ OnSendMessagesReply

SpecLog == InitLog /\ [][NextLog]_vars

(***************************************************************************)
(* The window and the session: the Connect button, init-whatsapp and the   *)
(* client's events as init-whatsapp forwards them to App's listeners       *)
(***************************************************************************)
MaxConnects == 2
MaxRenders == 1

\* the Connect button: disabled={connectionStatus === 'connected' ||
\* connectionStatus === 'connecting'}
ConnectButtonEnabled(app) == app.connectionStatus \notin {"connected", "connecting"}

\* the QR panel: {qrCode && (...)}
QrShown(app) == app.qrCode # ""

\* the 'whatsapp-qr' listener up to its await of QRCode.toDataURL
OnWhatsappQr(app) ==
    [app EXCEPT !.connectionStatus = "qr", !.rendering = @ + 1]

\* the 'whatsapp-qr' listener after its await: setQrCode(qrDataUrl)
OnQrRendered(app) ==
    [app EXCEPT !.qrCode = "dataurl", !.rendering = @ - 1]

\* the 'whatsapp-authenticated' listener
OnWhatsappAuthenticated(app) == [app EXCEPT !.connectionStatus = "authenticated"]

\* the 'whatsapp-ready' listener
OnWhatsappReady(app) == [app EXCEPT !.connectionStatus = "connected", !.qrCode = ""]

\* the 'whatsapp-auth-failure' listener
OnWhatsappAuthFailure(app) == [app EXCEPT !.connectionStatus = "error"]

\* the 'whatsapp-disconnected' listener
OnWhatsappDisconnected(app) == [app EXCEPT !.connectionStatus = "disconnected"]

\* a click on Connect: handleConnect sets 'connecting' and invokes
\* init-whatsapp, which assigns whatsappHandler = new WhatsAppHandler() and
\* calls initialize(); the reply is awaited and not looked at
HandleConnect ==
    /\ ConnectButtonEnabled(ui)
    /\ Len(handlers) < MaxConnects
    /\ ui' = [ui EXCEPT !.connectionStatus = "connecting"]
    /\ handlers' = Append(handlers, NewHandler)
    /\ whatsappHandler' = Len(handlers) + 1
    /\ UNCHANGED <<call, disconnecting, runs, group, inflight, transportLog>>

\* the client of handler h emits 'qr' while it starts: the event is
\* forwarded and the listener runs up to its await
QrForwarded(h) ==
    /\ handlers[h].session = "starting"
    /\ ui.rendering < MaxRenders
    /\ ui' = OnWhatsappQr(ui)
    /\ UNCHANGED <<call, whatsappHandler, handlers, disconnecting, runs, group,
                   inflight, transportLog>>

\* QRCode.toDataURL resolves and the listener runs to its end
QrRendered ==
    /\ ui.rendering > 0
    /\ ui' = OnQrRendered(ui)
    /\ UNCHANGED <<call, whatsappHandler, handlers, disconnecting, runs, group,
                   inflight, transportLog>>

\* the client of handler h emits 'authenticated' while it starts
AuthenticatedForwarded(h) ==
    /\ handlers[h].session = "starting"
    /\ ui.connectionStatus # "authenticated"
    /\ ui' = OnWhatsappAuthenticated(ui)
    /\ UNCHANGED <<call, whatsappHandler, handlers, disconnecting, runs, group,
                   inflight, transportLog>>

\* the client of handler h emits 'ready': isReady = true and the event is
\* forwarded
ReadyForwarded(h) ==
    /\ handlers[h].session = "starting"
    /\ handlers' = [handlers EXCEPT ![h].session = "ready", ![h].isReady = TRUE]
    /\ ui' = OnWhatsappReady(ui)
    /\ UNCHANGED <<call, whatsappHandler, disconnecting, runs, group, inflight,
                   transportLog>>

\* the client of handler h emits 'auth_failure'
AuthFailureForwarded(h) ==
    /\ handlers[h].session = "starting"
    /\ handlers' = [handlers EXCEPT ![h].session = "auth_failure"]
    /\ ui' = OnWhatsappAuthFailure(ui)
    /\ UNCHANGED <<call, whatsappHandler, disconnecting, runs, group, inflight,
                   transportLog>>

\* the client of handler h emits 'disconnected': isReady = false and the
\* event is forwarded
DisconnectedForwarded(h) ==
    /\ handlers[h].session = "ready"
    /\ handlers' = [handlers EXCEPT ![h].session = "disconnected", ![h].isReady = FALSE]
    /\ ui' = OnWhatsappDisconnected(ui)
    /\ UNCHANGED <<call, whatsappHandler, disconnecting, runs, group, inflight,
                   transportLog>>

\* the window has opened; no handler yet
InitConnect ==
    /\ whatsappHandler = 0
    /\ handlers = <<>>
    /\ disconnecting = 0
    /\ runs = [r \in RunIds |-> IdleRun]
    /\ group = IdleGroup
    /\ inflight = {}
    /\ transportLog = <<>>
    /\ call = NoCall
    /\ ui = InitialApp

\* the operator presses Connect while the clients start and emit their
\* events
NextConnect ==
    \/ HandleConnect
    \/ \E h \in 1..Len(handlers) : ClientCreate(h)
    \/ \E h \in 1..Len(handlers) : ClientInitialized(h)
    \/ \E h \in 1..Len(handlers) : ClientInitializeRejected(h)
    \/ \E h \in 1..Len(handlers) : PollResolve(h)
    \/ \E h \in 1..Len(handlers) : QrForwarded(h)
    \/ QrRendered
    \/ \E h \in 1..Len(handlers) : AuthenticatedForwarded(h)
    \/ \E h \in 1..Len(handlers) : ReadyForwarded(h)
    \/ \E h \in 1..Len(handlers) : AuthFailureForwarded(h)
    \/ \E h \in 1..Len(handlers) : DisconnectedForwarded(h)

SpecConnect == InitConnect /\ [][NextConnect]_vars

\* the operator has connected, loads a sheet and starts campaigns; the
\* session can drop and the operator can connect again
NextReconnect ==
    \/ LoadSheet
    \/ SetPhoneColumn
    \/ SetMessageTemplate
    \/ HandleSendMessages
    \/ OnSendMessagesReply
    \/ HandleConnect
    \/ \E h \in 1..Len(handlers) : ClientCreate(h)
    \/ \E h \in 1..Len(handlers) : ReadyForwarded(h)
    \/ \E h \in 1..Len(handlers) : AuthFailureForwarded(h)
    \/ \E h \in 1..Len(handlers) : DisconnectedForwarded(h)

SpecReconnect == InitUI /\ [][NextReconnect]_vars

(***************************************************************************)
(* The command-line program (index.ts): WhatsAppAutomation.run from the    *)
(* operator's confirmation on, with formatMessage, formatPhoneNumber and   *)
(* sendMessage of that class                                               *)
(***************************************************************************)
\* Date.prototype.toString() in a UTC zone; the names of the weekday and of
\* the month are letters
DateToString(cell) ==
    <<"W", "w", "w", " ", "M", "m", "m", " ">>
    \o (IF cell.v[2] < 10 THEN <<"0">> ELSE <<>>) \o NatToText(cell.v[2])
    \o <<" ">> \o NatToText(cell.v[3])
    \o <<" ", "0", "0", ":", "0", "0", ":", "0", "0", " ", "G", "M", "T", "+",
         "0", "0", "0", "0">>

\* value.toString() of a cell of any type
CliToText(cell) == IF cell.t = "date" THEN DateToString(cell) ELSE ToText(cell)

\* the value put in for a column: '' for undefined, else toString()
CliCellDisplay(cell) == IF cell.t = "undefined" THEN <<>> ELSE CliToText(cell)

\* the forEach over Object.keys(rowData), from key k on
RECURSIVE CliFormatFrom(_, _, _)
CliFormatFrom(message, rowData, k) ==
    IF k > Len(rowData) THEN message
    ELSE CHOOSE formatted \in
             { CliFormatFrom(replaced, rowData, k + 1) :
                   replaced \in { SplitJoin(message, placeholder, value) :
                                      placeholder \in { Placeholder(rowData[k][1]) },
                                      value \in { CliCellDisplay(rowData[k][2]) } } } : TRUE

CliFormatMessage(template, rowData) == CliFormatFrom(template, rowData, 1)

CliFormatPhoneNumber(phone) == StripNonDigits(CliToText(phone)) \o Suffix

\* if (!phone): the row is skipped
CliSkips(phone) == Falsy(phone)

\* a pause after the last row too
CliDelayDue_AlsoAfterLast(i, length) == i < length

\* if (i < data.length - 1)
CliDelayDue(i, length) == i < length - 1

\* sendMessage's return value for an outcome of client.sendMessage
CliSendResult(outcome) ==
    CASE outcome = "ok" -> [success |-> TRUE, error |-> NoError]
      [] outcome = "error" -> [success |-> FALSE, error |-> "Evaluation failed"]
      [] outcome = "nonerror" -> [success |-> FALSE, error |-> "Unknown error"]

\* the rows of the sheets both programs are run on: each with a phone, an
\* empty phone or a date for a phone
CliKinds == { "text", "empty", "date" }

CliOptions ==
    UNION { { [data |-> [k \in 1..n |-> MakeRow(k - 1, f[k])],
               template |-> t, delay |-> 5] :
                  f \in [1..n -> CliKinds], t \in Templates } : n \in 1..MaxRows }

\* the operator confirms: the loop begins over the sheet, the column and
\* the template of the campaign the engine has finished. sent is the
\* client.sendMessage calls, settled how each settled, delays the pauses
CliRun ==
    /\ call.fn = "none"
    /\ runs[1].pc = "done"
    /\ call' = [ fn |-> "run", pc |-> "loop",
                 data |-> runs[1].given.data,
                 phoneColumn |-> runs[1].given.phoneColumn,
                 template |-> runs[1].given.template,
                 delay |-> runs[1].given.delay,
                 i |-> 0, message |-> <<>>,
                 successCount |-> 0, failCount |-> 0,
                 sent |-> <<>>, settled |-> <<>>, delays |-> <<>> ]
    /\ UNCHANGED <<ui, whatsappHandler, handlers, disconnecting, runs, group,
                   inflight, transportLog>>

\* a row whose phone is falsy: failCount++, continue
CliRowSkip ==
    /\ call.fn = "run" /\ call.pc = "loop"
    /\ call.i < Len(call.data)
    /\ CliSkips(Cell(call.data[call.i + 1], call.phoneColumn))
    /\ call' = [call EXCEPT !.failCount = @ + 1, !.i = @ + 1]
    /\ UNCHANGED <<ui, whatsappHandler, handlers, disconnecting, runs, group,
                   inflight, transportLog>>

\* any other row: formatMessage, then sendMessage calls client.sendMessage
\* with the chat id and awaits it
CliRowSend ==
    /\ call.fn = "run" /\ call.pc = "loop"
    /\ call.i < Len(call.data)
    /\ ~CliSkips(Cell(call.data[call.i + 1], call.phoneColumn))
    /\ call' = [call EXCEPT
                   !.message = CliFormatMessage(call.template, call.data[call.i + 1]),
                   !.sent = Append(@,
                       [index |-> call.i,
                        to |-> <<CliFormatPhoneNumber(
                                     Cell(call.data[call.i + 1], call.phoneColumn))>>,
                        message |-> CliFormatMessage(call.template,
                                                     call.data[call.i + 1])]),
                   !.pc = "await_transport"]
    /\ UNCHANGED <<ui, whatsappHandler, handlers, disconnecting, runs, group,
                   inflight, transportLog>>

\* client.sendMessage settles: sendMessage returns, the loop counts the
\* result and begins the pause or goes to the next row
CliTransportSettle ==
    /\ call.fn = "run" /\ call.pc = "await_transport"
    /\ \E outcome \in {"ok", "error", "nonerror"} :
         call' = [call EXCEPT
                    !.settled = Append(@, [index |-> call.i, outcome |-> outcome]),
                    !.successCount = IF CliSendResult(outcome).success THEN @ + 1 ELSE @,
                    !.failCount = IF CliSendResult(outcome).success THEN @ ELSE @ + 1,
                    !.delays = IF CliDelayDue(call.i, Len(call.data))
                               THEN Append(@, [after |-> call.i, seconds |-> call.delay])
                               ELSE @,
                    !.i = IF CliDelayDue(call.i, Len(call.data)) THEN @ ELSE @ + 1,
                    !.pc = IF CliDelayDue(call.i, Len(call.data)) THEN "delay" ELSE "loop"]
    /\ UNCHANGED <<ui, whatsappHandler, handlers, disconnecting, runs, group,
                   inflight, transportLog>>

\* the setTimeout of the pause fires
CliDelayElapsed ==
    /\ call.fn = "run" /\ call.pc = "delay"
    /\ call' = [call EXCEPT !.i = @ + 1, !.pc = "loop"]
    /\ UNCHANGED <<ui, whatsappHandler, handlers, disconnecting, runs, group,
                   inflight, transportLog>>

\* the loop test has failed: the summary is printed
CliRunEnd ==
    /\ call.fn = "run" /\ call.pc = "loop"
    /\ ~(call.i < Len(call.data))
    /\ call' = [call EXCEPT !.pc = "done"]
    /\ UNCHANGED <<ui, whatsappHandler, handlers, disconnecting, runs, group,
                   inflight, transportLog>>

(***************************************************************************)
(* Specifications                                                          *)
(***************************************************************************)
\* the session events that change what a campaign sees of its handler
Session ==
    \/ InitWhatsapp
    \/ \E h \in 1..Len(handlers) : ClientCreate(h)
    \/ \E h \in 1..Len(handlers) : ClientReady(h)
    \/ \E h \in 1..Len(handlers) : ClientAuthFailure(h)
    \/ \E h \in 1..Len(handlers) : ClientDisconnected(h)
    \/ DisconnectWhatsapp
    \/ DestroyResolved

Campaign(r) ==
    \/ SendMessagesReturn(r)
    \/ RowIneligible(r)
    \/ RowSendNoClient(r)
    \/ RowSend(r)
    \/ TransportSettle(r)
    \/ RowRecord(r)
    \/ DelayElapsed(r)

\* one campaign, started at any moment of the session's life
Next ==
    \/ Session
    \/ SendMessagesInvoke(1, Options)
    \/ Campaign(1)

Spec == Init /\ [][Next]_vars

\* the same, where every call of the client settles, every timer fires and
\* the continuation of every await is run
NextLive ==
    \/ Session
    \/ SendMessagesInvoke(1, LiveOptions)
    \/ Campaign(1)

SpecLive == Init /\ [][NextLive]_vars /\ WF_vars(Campaign(1))

\* a connected session and every caller of the transport the main process
\* has: send-messages invocations and a create-group invocation
NextLease ==
    \/ \E r \in RunIds : SendMessagesInvoke(r, LeaseOptions)
    \/ \E r \in RunIds : Campaign(r)
    \/ CreateGroupRefused
    \/ CreateGroupSend
    \/ CreateGroupSettle
    \/ DisconnectWhatsapp
    \/ DestroyResolved

SpecLease == InitConnected /\ [][NextLease]_vars

\* initialize() from its call to its resolution, with the events of the
\* client and a campaign started at any moment
Initialize ==
    \/ \E h \in 1..Len(handlers) : ClientInitialized(h)
    \/ \E h \in 1..Len(handlers) : ClientInitializeRejected(h)
    \/ \E h \in 1..Len(handlers) : PollResolve(h)

NextInit ==
    \/ Session
    \/ Initialize
    \/ SendMessagesInvoke(1, LiveOptions)
    \/ Campaign(1)

\* the interval timer of checkReady keeps firing
SpecInit == Init /\ [][NextInit]_vars
                 /\ \A h \in 1..MaxHandlers : WF_vars(h <= Len(handlers) /\ PollResolve(h))

\* one campaign over a connected session that can drop or be destroyed
\* while the campaign runs
NextPaced ==
    \/ SendMessagesInvoke(1, PacedOptions)
    \/ Campaign(1)
    \/ ClientDisconnected(1)
    \/ DisconnectWhatsapp
    \/ DestroyResolved

SpecPaced == InitConnected /\ [][NextPaced]_vars

\* the functions of WhatsAppHandler that need no session, called on their own
NextPure ==
    \/ FormatMessageCall
    \/ FormatPhoneNumberCall
    \/ EligibilityCall

SpecPure == InitPure /\ [][NextPure]_vars

\* a campaign of the engine over a connected session, then the run of the
\* command-line program over the same sheet
NextCli ==
    \/ SendMessagesInvoke(1, CliOptions)
    \/ SendMessagesReturn(1)
    \/ RowIneligible(1)
    \/ RowSend(1)
    \/ TransportSettle(1)
    \/ RowRecord(1)
    \/ DelayElapsed(1)
    \/ CliRun
    \/ CliRowSkip
    \/ CliRowSend
    \/ CliTransportSettle
    \/ CliDelayElapsed
    \/ CliRunEnd

SpecCli == InitConnected /\ [][NextCli]_vars

(***************************************************************************)
(* Properties                                                              *)
(***************************************************************************)
Range(seq) == { seq[k] : k \in 1..Len(seq) }
Min(a, b) == IF a < b THEN a ELSE b
Positions(seq, Test(_)) == { k \in 1..Len(seq) : Test(seq[k]) }

\* sendMessages was called for invocation r
Started(r) == runs[r].pc # "idle" /\ runs[r].this # 0
\* sendMessages is between its call and its return
Running(r) == Started(r) /\ runs[r].pc # "done"
\* sendMessages has returned its results
Returned(r) == Started(r) /\ runs[r].pc = "done"

\* row k (1-based) of the run has a usable phone
RowEligible(run, k) == Eligible(Cell(run.data[k], run.phoneColumn))
EligibleRows(run) == { k \in 1..Len(run.data) : RowEligible(run, k) }
Terminal(n) == n.status \in {"success", "failed"}
\* the transport operations invocation r has issued
CallsOf(r) == { k \in 1..Len(transportLog) : transportLog[k].caller = r }

\* C1: at every moment of a run total is the number of input rows and
\* success + failed is the number of outcomes recorded; once the run has
\* returned, success + failed = total = length(details) = number of rows.
C1_CountsAddUp ==
    \A r \in RunIds : Started(r) =>
        LET res == runs[r].results IN
        /\ res.total = Len(runs[r].data)
        /\ res.success + res.failed = Len(res.details)
        /\ res.success = Cardinality(Positions(res.details, LAMBDA d : d.status = "success"))
        /\ Returned(r) => Len(res.details) = res.total

\* a returned run of two rows with one success and one failure
C1_Witness ==
    \E r \in RunIds :
        /\ Returned(r)
        /\ runs[r].results.total = 2
        /\ runs[r].results.success = 1
        /\ runs[r].results.failed = 1

\* C2: a failed row does not halt the campaign.  Every recorded outcome k
\* belongs to row k and is decided by that row alone: failed when the row has
\* no usable phone, otherwise the status this.sendMessage returned for it.
\* A run whose latest outcome is a failure, and that is not over, can take
\* its next step, and a run returns only with one outcome for every row.
C2_FailureDoesNotHalt ==
    \A r \in RunIds : Started(r) =>
        LET run == runs[r]
            det == run.results.details
        IN
        /\ \A k \in 1..Len(det) :
              /\ det[k].index = k - 1
              /\ IF RowEligible(run, k)
                 THEN \E j \in 1..Len(run.returned) :
                        /\ run.returned[j].index = k - 1
                        /\ run.returned[j].status = det[k].status
                        /\ \A j2 \in 1..Len(run.returned) :
                              run.returned[j2].index = k - 1 => j2 = j
                 ELSE det[k].status = "failed"
        /\ Returned(r) => Len(det) = Len(run.data)
        /\ (Running(r) /\ Len(det) > 0 /\ det[Len(det)].status = "failed") =>
              ENABLED Campaign(r)

\* row 0 failed at the transport and row 1 was sent after it, with success
C2_Witness ==
    \E r \in RunIds :
        /\ Returned(r)
        /\ Len(runs[r].results.details) = 2
        /\ runs[r].results.details[1].status = "failed"
        /\ runs[r].results.details[1].error = "Evaluation failed"
        /\ runs[r].results.details[2].status = "success"

\* the pauses of a run whose first n rows are done: one, of the configured
\* duration, after every one of them that has a usable phone
RECURSIVE PausesAfter(_, _)
PausesAfter(run, n) ==
    IF n <= 0 THEN <<>>
    ELSE PausesAfter(run, n - 1)
         \o (IF RowEligible(run, n) THEN <<[after |-> n - 1, seconds |-> run.delay]>>
             ELSE <<>>)

C4_NoRowWithoutSession ==
    \A r \in RunIds : (Started(r) /\ ~runs[r].established) =>
        /\ runs[r].progress = <<>>
        /\ runs[r].results.details = <<>>
        /\ runs[r].attempts = <<>>
        /\ runs[r].delays = <<>>
        /\ runs[r].pc = "done" => ~runs[r].reply.success

\* a run begun on a handler whose client is null: its one row was announced,
\* attempted and recorded as failed, and send-messages replied success: true
C4_Witness ==
    \E r \in RunIds :
        /\ Returned(r)
        /\ ~runs[r].established
        /\ runs[r].reply.success
        /\ Len(runs[r].data) = 1
        /\ runs[r].attempts = <<0>>
        /\ runs[r].results.details[1].error = "WhatsApp client not initialized"
        /\ Len(runs[r].progress) = 2

\* C5 as stated: while a campaign runs, no transport operation of another
\* caller (a second send-messages, create-group) is in flight.
C5_TransportLeased ==
    \A r \in RunIds : Running(r) =>
        \A op \in inflight : op.caller = r

\* two campaigns run at once and the first send of each is in flight
C5_Witness ==
    \E r, q \in RunIds :
        /\ r # q
        /\ Running(r) /\ Running(q)
        /\ [caller |-> r, index |-> 0] \in inflight
        /\ [caller |-> q, index |-> 0] \in inflight

\* C6: a run has at most one call of client.sendMessage in flight, and while
\* the call for row j is in flight the outcomes of rows 0..j-1, and only
\* they, are recorded, each with its terminal notification, the last
\* notification being the 'sending' of row j.
C6_OneSendInFlight ==
    \A r \in RunIds : Started(r) =>
        LET run == runs[r]
            mine == { op \in inflight : op.caller = r }
        IN
        /\ Cardinality(mine) <= 1
        /\ \A op \in mine :
              /\ op.index = Len(run.results.details)
              /\ Cardinality(Positions(run.progress, Terminal)) = op.index
              /\ run.progress[Len(run.progress)].status = "sending"
              /\ run.progress[Len(run.progress)].current = op.index + 1
        /\ \A a, b \in CallsOf(r) : a < b => transportLog[a].index < transportLog[b].index

\* the call for row 1 is in flight, the outcome of row 0 is recorded
C6_Witness ==
    \E r \in RunIds :
        /\ [caller |-> r, index |-> 1] \in inflight
        /\ Len(runs[r].results.details) = 1
        /\ 1 \in EligibleRows(runs[r])

\* C7: the notifications of a run are in row order; a 'sending' is followed
\* by nothing but the terminal notification of its own row; a terminal
\* notification is followed only by notifications of later rows; the
\* terminal notification of a row that was sent comes right after its
\* 'sending'.
C7_NotificationOrder ==
    \A r \in RunIds : Started(r) =>
        LET run == runs[r]
            p == run.progress
        IN
        \A a \in 1..Len(p) :
            /\ a < Len(p) => p[a].current <= p[a + 1].current
            /\ (p[a].status = "sending" /\ a < Len(p)) =>
                  (p[a + 1].current = p[a].current /\ Terminal(p[a + 1]))
            /\ (Terminal(p[a]) /\ a < Len(p)) => p[a].current < p[a + 1].current
            /\ (Terminal(p[a]) /\ RowEligible(run, p[a].current)) =>
                  (a > 1 /\ p[a - 1].status = "sending" /\ p[a - 1].current = p[a].current)

\* two rows sent: sending 1, failed 1, sending 2, success 2
C7_Witness ==
    \E r \in RunIds :
        /\ Len(runs[r].progress) = 4
        /\ runs[r].progress[1].status = "sending"
        /\ runs[r].progress[2].status = "failed"
        /\ runs[r].progress[3].status = "sending"
        /\ runs[r].progress[3].current = 2
        /\ runs[r].progress[4].status = "success"

\* C8: details[k].index = k for every recorded k (0-based): the offset in the
\* sequence handed to sendMessages, whatever __rowIndex the row carries.
C8_OutcomeIndexIsOffset ==
    \A r \in RunIds : Started(r) =>
        \A k \in 1..Len(runs[r].results.details) :
            runs[r].results.details[k].index = k - 1

\* the one row handed over is row 1 of its sheet: its outcome has index 0
C8_Witness ==
    \E r \in RunIds :
        /\ Returned(r)
        /\ Len(runs[r].data) = 1
        /\ Cell(runs[r].data[1], RowIndexKey) = Num(1)
        /\ runs[r].results.details[1].index = 0

\* the phone cell of row k (1-based) is absent, the empty string or a date
NoUsablePhone(run, k) ==
    LET phone == Cell(run.data[k], run.phoneColumn) IN
    \/ ~HasKey(run.data[k], run.phoneColumn)
    \/ phone = Str(<<>>)
    \/ phone.t = "date"

\* C9: a row whose phone cell is absent, empty or a date is never rendered,
\* never announced as 'sending' and never sent; once it is recorded, its
\* outcome is {failed, 'N/A', 'No phone number'} and exactly one
\* notification, with the same content, was emitted for it.
C9_IneligibleRow ==
    \A r \in RunIds : Started(r) =>
        LET run == runs[r] IN
        \A k \in 1..Len(run.data) : NoUsablePhone(run, k) =>
            /\ (k - 1) \notin Range(run.rendered)
            /\ (k - 1) \notin Range(run.attempts)
            /\ \A c \in CallsOf(r) : transportLog[c].index # k - 1
            /\ \A a \in 1..Len(run.progress) :
                  run.progress[a].current = k => run.progress[a].status # "sending"
            /\ k <= Len(run.results.details) =>
                  /\ run.results.details[k] =
                        [index |-> k - 1, phone |-> NA, status |-> "failed",
                         error |-> "No phone number"]
                  /\ \E a \in 1..Len(run.progress) :
                        /\ run.progress[a] =
                              [current |-> k, total |-> Len(run.data), phone |-> NA,
                               status |-> "failed", error |-> "No phone number"]
                        /\ \A b \in 1..Len(run.progress) :
                              run.progress[b].current = k => b = a

\* a returned run of a row without the phone key and a row with a date
C9_Witness ==
    \E r \in RunIds :
        /\ Returned(r)
        /\ Len(runs[r].data) = 2
        /\ ~HasKey(runs[r].data[1], PhoneKey)
        /\ Cell(runs[r].data[2], PhoneKey).t = "date"
        /\ runs[r].results.failed = 2
        /\ Len(runs[r].progress) = 2

\* C10: this.sendMessage is called once for every row with a usable phone
\* that the loop has reached, and for no other row, also when the call
\* returned failed; each call makes at most one call of client.sendMessage,
\* and none only when it found the client null.  A returned run has made as
\* many calls as it has rows with a usable phone.
C10_OneSendPerEligibleRow ==
    \A r \in RunIds : Started(r) =>
        LET run == runs[r]
            noClient == Positions(run.returned,
                                  LAMBDA x : x.error = "WhatsApp client not initialized")
        IN
        /\ \A a, b \in 1..Len(run.attempts) : a < b => run.attempts[a] < run.attempts[b]
        /\ \A k \in 1..Len(run.results.details) :
              RowEligible(run, k) <=> (k - 1) \in Range(run.attempts)
        /\ \A i \in Range(run.attempts) : RowEligible(run, i + 1)
        /\ { transportLog[c].index : c \in CallsOf(r) } \subseteq Range(run.attempts)
        /\ Cardinality(CallsOf(r)) + Cardinality(noClient) = Len(run.attempts)
        /\ Returned(r) => Len(run.attempts) = Cardinality(EligibleRows(run))

\* a returned run of two rows with phones: the first send failed at the
\* transport, and two calls of the client were made in all
C10_Witness ==
    \E r \in RunIds :
        /\ Returned(r)
        /\ EligibleRows(runs[r]) = {1, 2}
        /\ runs[r].results.details[1].error = "Evaluation failed"
        /\ runs[r].attempts = <<0, 1>>
        /\ Cardinality(CallsOf(r)) = 2

\* C11: a send that fails is data, never an exception: every call of the
\* client that has settled has a result returned by sendMessage, a failed
\* result is recorded as the failed outcome of its row with the same error,
\* and a started run replies only with success: true and its results.
C11_FailedSendIsData ==
    \A r \in RunIds : Started(r) =>
        LET run == runs[r]
            det == run.results.details
        IN
        /\ run.reply.sent => (run.reply.success /\ run.reply.error = NoError)
        /\ \A c \in CallsOf(r) :
              \/ [caller |-> r, index |-> transportLog[c].index] \in inflight
              \/ \E j \in 1..Len(run.returned) :
                    run.returned[j].index = transportLog[c].index
        /\ \A j \in 1..Len(run.returned) :
              LET k == run.returned[j].index + 1 IN
              k <= Len(det) =>
                  /\ det[k].status = run.returned[j].status
                  /\ det[k].error = run.returned[j].error
        /\ Returned(r) => \A j \in 1..Len(run.returned) :
                              run.returned[j].index + 1 <= Len(det)

\* both rows' sends were rejected, one with an Error and one with a value
\* that is no Error, and the run replied success: true with two failures
C11_Witness ==
    \E r \in RunIds :
        /\ Returned(r)
        /\ runs[r].reply.success
        /\ runs[r].results.failed = 2
        /\ runs[r].results.details[1].error = "Evaluation failed"
        /\ runs[r].results.details[2].error = "Unknown error"

\* C12: a started campaign runs to completion.  With every send settling and
\* every timer firing, a started run returns; it returns with an outcome for
\* every row, whatever the session did meanwhile (disconnected,
\* auth_failure, destroy); and once it has returned nothing of it changes
\* again: the result is produced once.
C12_RunsToCompletion ==
    /\ \A r \in RunIds : Started(r) ~> Returned(r)
    /\ [](\A r \in RunIds : Returned(r) =>
              /\ runs[r].reply.success
              /\ Len(runs[r].results.details) = Len(runs[r].data))
    /\ [][\A r \in RunIds : Returned(r) => runs'[r] = runs[r]]_vars

\* the session was destroyed between the two rows' sends: the first was
\* sent, the second found the client null, and the run returned
C12_Witness ==
    \E r \in RunIds :
        /\ Returned(r)
        /\ runs[r].established
        /\ Len(runs[r].results.details) = 2
        /\ runs[r].results.details[1].status = "success"
        /\ runs[r].results.details[2].error = "WhatsApp client not initialized"
        /\ handlers[runs[r].this].session = "destroyed"

\* the display text of a cell: nothing for an absent value, the date in the
\* locale's short form, the decimal digits of a number, the text itself
Shown(cell) ==
    CASE cell.t = "undefined" -> <<>>
      [] cell.t = "string" -> cell.v
      [] cell.t = "number" -> NatToText(cell.v[1])
      [] cell.t = "date" -> NatToText(cell.v[1]) \o <<"/">> \o NatToText(cell.v[2])
                            \o <<"/">> \o NatToText(cell.v[3])

\* the cell holds this text
IsText(cell, text) == cell.t = "string" /\ cell.v = text

\* the text {column}
Token(column) == <<"{">> \o column \o <<"}">>

\* the columns of the row whose token stands in text at position k
TokensAt(text, row, k) ==
    { j \in 1..Len(row) :
          /\ k + Len(row[j][1]) + 1 <= Len(text)
          /\ SubSeq(text, k, k + Len(row[j][1]) + 1) = Token(row[j][1]) }

\* the simultaneous substitution: the tokens of the template itself, found
\* left to right, are replaced; what is put in is not looked at again
RECURSIVE Substituted(_, _, _)
Substituted(text, row, k) ==
    IF k > Len(text) THEN <<>>
    ELSE IF TokensAt(text, row, k) = {} THEN <<text[k]>> \o Substituted(text, row, k + 1)
    ELSE LET j == CHOOSE j \in TokensAt(text, row, k) : TRUE IN
         Shown(row[j][2]) \o Substituted(text, row, k + Len(row[j][1]) + 2)

\* text holds an opening brace
HasBrace(text) == \E k \in 1..Len(text) : text[k] = "{"
\* no cell of the row shows text with an opening brace
BraceFree(row) == \A j \in 1..Len(row) : ~HasBrace(Shown(row[j][2]))
\* the number of places of text where part stands
Occurrences(text, part) ==
    Cardinality({ k \in 1..Len(text) :
                     /\ k + Len(part) - 1 <= Len(text)
                     /\ SubSeq(text, k, k + Len(part) - 1) = part })

\* C13 as stated: for every template and row the output of formatMessage is
\* the simultaneous substitution of the tokens of the original template: a
\* value that holds the text {OtherColumn} appears literally, and the order
\* of the row's columns does not matter.
C13_SimultaneousSubstitution ==
    call.fn = "formatMessage" =>
        \A n \in 1..Len(call.outs) :
            call.outs[n] = Substituted(call.given.template, call.given.rowData, 1)

\* template {N}, row N = "{P}", P = "a" in this key order: the output is
\* "a", the value of P, and not the literal {P}
C13_Witness ==
    /\ call.fn = "formatMessage"
    /\ call.given.template = <<"{", "N", "}">>
    /\ Keys(call.given.rowData) = <<RowIndexKey, NameKey, PhoneKey>>
    /\ IsText(Cell(call.given.rowData, NameKey), <<"{", "P", "}">>)
    /\ IsText(Cell(call.given.rowData, PhoneKey), <<"a">>)
    /\ Len(call.outs) >= 1
    /\ call.outs[1] = <<"a">>

\* C14: formatMessage replaces every occurrence of the token of every column
\* of the row by the display text of that cell, an absent value showing as
\* the empty string.  Stated for the rows none of whose cells shows a brace
\* (what becomes of a value that holds a token is C13's subject): the output
\* holds no token of a column of the row, and it is the template with each
\* such token replaced.
C14_EveryOccurrenceReplaced ==
    (call.fn = "formatMessage" /\ BraceFree(call.given.rowData)) =>
        \A n \in 1..Len(call.outs) :
            /\ \A j \in 1..Len(call.given.rowData) :
                  Occurrences(call.outs[n], Token(call.given.rowData[j][1])) = 0
            /\ call.outs[n] = Substituted(call.given.template, call.given.rowData, 1)

\* {N}-{N} with N = "a" and an undefined P gives a-a
C14_Witness ==
    /\ call.fn = "formatMessage"
    /\ call.given.template = <<"{", "N", "}", "-", "{", "N", "}">>
    /\ IsText(Cell(call.given.rowData, NameKey), <<"a">>)
    /\ HasKey(call.given.rowData, PhoneKey)
    /\ Cell(call.given.rowData, PhoneKey).t = "undefined"
    /\ Len(call.outs) >= 1
    /\ call.outs[1] = <<"a", "-", "a">>

\* the texts that can name a column in a template
ColumnNames == { NameKey, PhoneKey, <<"M">> }

\* C15: a token whose column is no key of the row stays in the output, as it
\* is: the output holds it at least as often as the template does, and
\* exactly as often, in a text otherwise that of the substitution, when no
\* cell of the row shows a brace.  No template makes the call fail: it can
\* be made on every template and returns a text.
C15_UnknownPlaceholderKept ==
    call.fn = "formatMessage" =>
        /\ Len(call.outs) < MaxCalls => ENABLED FormatMessageCall
        /\ \A n \in 1..Len(call.outs) :
              \A column \in ColumnNames : ~HasKey(call.given.rowData, column) =>
                  /\ Occurrences(call.outs[n], Token(column))
                        >= Occurrences(call.given.template, Token(column))
                  /\ BraceFree(call.given.rowData) =>
                        Occurrences(call.outs[n], Token(column))
                            = Occurrences(call.given.template, Token(column))
        /\ \A n \in 1..Len(call.outs) :
              (\A j \in 1..Len(call.given.rowData) :
                   Occurrences(call.given.template, Token(call.given.rowData[j][1])) = 0)
                  => call.outs[n] = call.given.template

\* "Hi {M}" with a row that has no column M comes out unchanged
C15_Witness ==
    /\ call.fn = "formatMessage"
    /\ call.given.template = <<"H", "i", " ", "{", "M", "}">>
    /\ IsText(Cell(call.given.rowData, NameKey), <<"a">>)
    /\ Len(call.outs) >= 1
    /\ call.outs[1] = <<"H", "i", " ", "{", "M", "}">>

DecimalDigits == { "0", "1", "2", "3", "4", "5", "6", "7", "8", "9" }

\* C16: for a text or a number, formatPhoneNumber returns the decimal digits
\* of the input, in their order, every other character removed, followed by
\* @c.us.
C16_DigitsThenSuffix ==
    call.fn = "formatPhoneNumber" =>
        \A n \in 1..Len(call.outs) :
            LET out == call.outs[n]
                digits == SelectSeq(Shown(call.given.phone), LAMBDA c : c \in DecimalDigits)
            IN
            /\ Len(out) = Len(digits) + 5
            /\ SubSeq(out, 1, Len(digits)) = digits
            /\ SubSeq(out, Len(digits) + 1, Len(out)) = <<"@", "c", ".", "u", "s">>

\* "+1 (234) 567-8901" gives 12345678901@c.us
C16_Witness ==
    /\ call.fn = "formatPhoneNumber"
    /\ IsText(call.given.phone, <<"+", "1", " ", "(", "2", "3", "4", ")", " ",
                                  "5", "6", "7", "-", "8", "9", "0", "1">>)
    /\ Len(call.outs) >= 1
    /\ call.outs[1] = <<"1", "2", "3", "4", "5", "6", "7", "8", "9", "0", "1",
                        "@", "c", ".", "u", "s">>

\* the cell at the phone column of the row given to the eligibility test
GivenPhone == Cell(call.given.rowData, PhoneKey)
\* it is there, it is not the empty text, it is no date
PresentNonEmptyNoDate(cell) ==
    /\ cell.t # "undefined"
    /\ ~(cell.t = "string" /\ cell.v = <<>>)
    /\ cell.t # "date"
IsZero(cell) == cell.t = "number" /\ cell.v[1] = 0

\* what the test may change of a run: nothing when the row is eligible; when
\* it is not, the outcome, the counter, the notification and i
OnlyIneligibleOutcome(before, after, eligible) ==
    IF eligible THEN after = before
    ELSE after = [before EXCEPT
                     !.results = [total |-> 1, success |-> 0, failed |-> 1,
                                  details |-> <<[index |-> 0, phone |-> <<"N", "/", "A">>,
                                                 status |-> "failed",
                                                 error |-> "No phone number"]>>],
                     !.progress = <<[current |-> 1, total |-> 1, phone |-> <<"N", "/", "A">>,
                                     status |-> "failed", error |-> "No phone number"]>>,
                     !.i = 1]

\* C17 as stated: a row is eligible exactly when the cell at the target
\* column is present, not empty and no date; the test changes nothing of the
\* row, and of the run only records the ineligible outcome.
C17_EligibleIffPresentNoDate ==
    call.fn = "eligibility" =>
        \A n \in 1..Len(call.outs) :
            /\ call.outs[n].eligible <=> PresentNonEmptyNoDate(GivenPhone)
            /\ call.rowData = call.given.rowData
            /\ OnlyIneligibleOutcome(OneRowRun(call.given.rowData), call.outs[n].run,
                                     call.outs[n].eligible)

\* C17 amended: a row is eligible exactly when the cell at the target column
\* is present, not empty, not the number 0 and no date; createGroupFromExcel
\* takes a participant from exactly these rows; the test changes nothing of
\* the row, and of the run only records the ineligible outcome.
C17_EligibleIffTruthyNoDate ==
    call.fn = "eligibility" =>
        \A n \in 1..Len(call.outs) :
            /\ call.outs[n].eligible <=>
                  (PresentNonEmptyNoDate(GivenPhone) /\ ~IsZero(GivenPhone))
            /\ call.outs[n].eligible <=>
                  Len(Participants(<<call.given.rowData>>, PhoneKey)) = 1
            /\ call.rowData = call.given.rowData
            /\ OnlyIneligibleOutcome(OneRowRun(call.given.rowData), call.outs[n].run,
                                     call.outs[n].eligible)

\* the phone cell holds the number 0: the row is found ineligible and its
\* outcome is recorded
C17_Witness ==
    /\ call.fn = "eligibility"
    /\ IsZero(GivenPhone)
    /\ Len(call.outs) >= 1
    /\ ~call.outs[1].eligible
    /\ call.outs[1].run.results.failed = 1

C19_InputsUnchanged ==
    \A r \in RunIds :
        Started(r) =>
            /\ runs[r].data = runs[r].given.data
            /\ runs[r].phoneColumn = runs[r].given.phoneColumn
            /\ runs[r].template = runs[r].given.template
            /\ runs[r].delay = runs[r].given.delay

\* a run over two rows has returned after a rendered, successful send and a
\* pause
C19_Witness ==
    \E r \in RunIds :
        /\ Returned(r)
        /\ Len(runs[r].given.data) = 2
        /\ runs[r].given.delay = 5
        /\ runs[r].results.success >= 1
        /\ runs[r].rendered # <<>>
        /\ runs[r].delays # <<>>
        /\ runs[r].data = runs[r].given.data
        /\ runs[r].template = runs[r].given.template

\* C20: send-messages is invoked only right after a confirmation dialog
\* that was accepted, once per accepted dialog; a step in which the dialog
\* is declined invokes nothing and leaves isSending, results, logs and
\* progress as they were.
C20_ConfirmedBeforeSend ==
    /\ [](\A k \in 1..Len(ui.history) :
             /\ ui.history[k] = "invoke" => k > 1 /\ ui.history[k - 1] = "accepted"
             /\ ui.history[k] = "declined" =>
                    (k < Len(ui.history) => ui.history[k + 1] # "invoke"))
    /\ [][ (/\ Len(ui'.history) > Len(ui.history)
            /\ ui'.history[Len(ui.history) + 1] = "declined")
           => /\ Len(ui'.history) = Len(ui.history) + 1
              /\ ui'.invoked = ui.invoked
              /\ ui'.isSending = ui.isSending
              /\ ui'.results = ui.results
              /\ ui'.logs = ui.logs
              /\ ui'.progress = ui.progress ]_vars

\* after a finished campaign over two rows left results and logs on screen,
\* the operator declined the next dialog: one invocation in the history,
\* the results and logs still shown
C20_Witness ==
    /\ ui.view = "app"
    /\ ui.history = <<"accepted", "invoke", "declined">>
    /\ Len(ui.invoked.data) = 2
    /\ ~ui.isSending
    /\ ~ui.results.null
    /\ Len(ui.logs) = 2
    /\ ui.progress.current = 1

\* C21: no pause follows the final row.  No pause is begun after the last
\* index, the run never waits at the last index, and once every row has its
\* outcome the run has returned or has nothing left to do but return,
\* whether the last row succeeded, failed or had no phone.
C21_NoPauseAfterLastRow ==
    \A r \in RunIds : Started(r) =>
        LET run == runs[r] IN
        /\ \A k \in 1..Len(run.delays) : run.delays[k].after < Len(run.data) - 1
        /\ run.pc = "delay" => run.i < Len(run.data) - 1
        /\ Len(run.results.details) = Len(run.data) =>
              \/ run.pc = "done"
              \/ run.pc = "loop" /\ run.i = Len(run.data)

\* every row was sent, the last one was rejected, and the outcome of the
\* last row is recorded: two pauses, none after the last row, and only the
\* return is left
C21_Witness ==
    \E r \in RunIds :
        /\ Started(r)
        /\ runs[r].pc = "loop"
        /\ Len(runs[r].data) = MaxRows + 1
        /\ Len(runs[r].results.details) = MaxRows + 1
        /\ Len(runs[r].attempts) = MaxRows + 1
        /\ runs[r].results.details[MaxRows + 1].status = "failed"
        /\ runs[r].results.details[MaxRows + 1].error = "Evaluation failed"
        /\ Len(runs[r].delays) = MaxRows
        /\ ENABLED SendMessagesReturn(r)

\* the terminal notifications of a run, in the order they were emitted
TerminalNotifications(run) == SelectSeq(run.progress, Terminal)
\* the positions in progress of the 'sending' notifications of row current
SendingAt(run, current) ==
    { a \in 1..Len(run.progress) :
          run.progress[a].status = "sending" /\ run.progress[a].current = current }

\* C22: every call of the transport is bracketed by the notifications of its
\* row: while the call is outstanding the latest notification is the one
\* 'sending' of that row, once its outcome is recorded the next notification
\* is the terminal one of that row, and the k-th terminal notification
\* carries the status, identifier and error of the k-th recorded outcome, so
\* a returned run has emitted exactly total terminal notifications.
C22_SendBracketed ==
    \A r \in RunIds : Started(r) =>
        LET run == runs[r]
            p == run.progress
            det == run.results.details
            term == TerminalNotifications(run)
        IN
        /\ \A c \in CallsOf(r) :
              LET current == transportLog[c].index + 1 IN
              /\ Cardinality(SendingAt(run, current)) = 1
              /\ \A a \in SendingAt(run, current) :
                    /\ [caller |-> r, index |-> current - 1] \in inflight => a = Len(p)
                    /\ run.pc = "await_result" /\ run.i = current - 1 => a = Len(p)
                    /\ current <= Len(det) =>
                          /\ a < Len(p)
                          /\ Terminal(p[a + 1])
                          /\ p[a + 1].current = current
        /\ Len(term) = Len(det)
        /\ \A k \in 1..Len(det) :
              /\ term[k].current = k
              /\ term[k].status = det[k].status
              /\ term[k].phone = det[k].phone
              /\ term[k].error = det[k].error
        /\ Returned(r) => Len(term) = run.results.total

\* a returned run: row 1 sent, row 2 without a phone, row 3 rejected; five
\* notifications, three of them terminal
C22_Witness ==
    \E r \in RunIds :
        /\ Returned(r)
        /\ runs[r].results.total = 3
        /\ Len(runs[r].progress) = 5
        /\ Len(TerminalNotifications(runs[r])) = 3
        /\ Cardinality(CallsOf(r)) = 2
        /\ runs[r].progress[1].status = "sending"
        /\ runs[r].progress[2].status = "success"
        /\ runs[r].progress[3].phone = NA
        /\ runs[r].progress[4].status = "sending"
        /\ runs[r].progress[5].error = "Evaluation failed"

\* C23: every notification carries total = the number of input rows and
\* 1 <= current <= total, current never decreases along a run, and a
\* notification emitted while row index i is processed carries
\* current = i + 1.
C23_CurrentIsRowPosition ==
    /\ [](\A r \in RunIds : Started(r) =>
             LET p == runs[r].progress IN
             \A a \in 1..Len(p) :
                 /\ p[a].total = Len(runs[r].given.data)
                 /\ 1 <= p[a].current /\ p[a].current <= p[a].total
                 /\ a < Len(p) => p[a].current <= p[a + 1].current)
    /\ [][\A r \in RunIds : Started(r) =>
             \A a \in (Len(runs[r].progress) + 1)..Len(runs'[r].progress) :
                 runs'[r].progress[a].current = runs[r].i + 1]_vars

\* the notifications of a run over three rows, the second without a phone:
\* current is 1, 1, 2, 3, 3 and total is 3 throughout
C23_Witness ==
    \E r \in RunIds :
        /\ Started(r)
        /\ Len(runs[r].progress) = 5
        /\ \A a \in 1..5 : runs[r].progress[a].total = 3
        /\ runs[r].progress[1].current = 1
        /\ runs[r].progress[2].current = 1
        /\ runs[r].progress[3].current = 2
        /\ runs[r].progress[3].error = "No phone number"
        /\ runs[r].progress[4].current = 3
        /\ runs[r].progress[5].current = 3

\* the error description a failed send must carry: the message of the Error
\* the client raised, or the fixed text for a value that is no Error
ErrorOf(outcome) ==
    IF outcome = "error" THEN "Evaluation failed" ELSE "Unknown error"

\* row k (1-based) is recorded failed with error e, in its outcome and in
\* its terminal notification
FailedWith(run, k, e) ==
    /\ run.results.details[k].status = "failed"
    /\ run.results.details[k].error = e
    /\ \A a \in 1..Len(run.progress) :
          (run.progress[a].current = k /\ Terminal(run.progress[a])) =>
              (run.progress[a].status = "failed" /\ run.progress[a].error = e)
    /\ \E a \in 1..Len(run.progress) :
          run.progress[a].current = k /\ Terminal(run.progress[a])

\* C24: a failed send is recorded with the transport's own description: the
\* message of the Error the client raised, 'Unknown error' when the raised
\* value is no Error, and 'WhatsApp client not initialized' when sendMessage
\* found no client and called nothing; the outcome and the 'failed'
\* notification of the row carry the same text.
C24_TransportErrorCarried ==
    \A r \in RunIds : Started(r) =>
        LET run == runs[r]
            det == run.results.details
        IN
        /\ \A j \in 1..Len(run.settled) :
              LET k == run.settled[j].index + 1 IN
              (k <= Len(det) /\ run.settled[j].outcome # "ok") =>
                  FailedWith(run, k, ErrorOf(run.settled[j].outcome))
        /\ \A j \in 1..Len(run.attempts) :
              LET k == run.attempts[j] + 1 IN
              (k <= Len(det) /\ ~\E c \in CallsOf(r) : transportLog[c].index = k - 1) =>
                  FailedWith(run, k, "WhatsApp client not initialized")

\* three rows, three failures: an Error, a value that is no Error, and no
\* client after the session was destroyed
C24_Witness ==
    \E r \in RunIds :
        /\ Returned(r)
        /\ Len(runs[r].settled) = 2
        /\ runs[r].settled[1].outcome = "error"
        /\ runs[r].settled[2].outcome = "nonerror"
        /\ Len(runs[r].attempts) = 3
        /\ Cardinality(CallsOf(r)) = 2
        /\ runs[r].results.details[1].error = "Evaluation failed"
        /\ runs[r].results.details[2].error = "Unknown error"
        /\ runs[r].results.details[3].error = "WhatsApp client not initialized"
        /\ runs[r].progress[6].error = "WhatsApp client not initialized"

\* row k (1-based) holds a text without any decimal digit as its phone
NoDigitPhone(run, k) ==
    LET phone == Cell(run.data[k], run.phoneColumn) IN
    /\ phone.t = "string"
    /\ phone.v # <<>>
    /\ \A c \in 1..Len(phone.v) : ~IsDigit(phone.v[c])

\* C25: a row whose phone is present but has no decimal digit is eligible:
\* at its turn it is not skipped, it is announced and attempted, its call of
\* the transport goes to '@c.us' alone, and its outcome carries the phone
\* text and, when the transport rejects it, the transport's error, never
\* 'No phone number'.
C25_NoDigitPhoneIsSent ==
    \A r \in RunIds : Started(r) =>
        LET run == runs[r]
            det == run.results.details
        IN
        \A k \in 1..Len(run.data) : NoDigitPhone(run, k) =>
            /\ (run.pc = "loop" /\ run.i = k - 1) => ~ENABLED RowIneligible(r)
            /\ \A c \in CallsOf(r) :
                  transportLog[c].index = k - 1 => transportLog[c].to = <<Suffix>>
            /\ k <= Len(det) =>
                  /\ \E j \in 1..Len(run.attempts) : run.attempts[j] = k - 1
                  /\ SendingAt(run, k) # {}
                  /\ det[k].phone = Cell(run.data[k], run.phoneColumn).v
                  /\ det[k].error # "No phone number"
                  /\ \A j \in 1..Len(run.settled) :
                        (run.settled[j].index = k - 1 /\ run.settled[j].outcome # "ok") =>
                            FailedWith(run, k, ErrorOf(run.settled[j].outcome))

\* the first row's phone is 'abc': it was sent to '@c.us', the transport
\* rejected it, and the row is recorded failed with the transport's error
C25_Witness ==
    \E r \in RunIds :
        /\ Started(r)
        /\ Len(runs[r].data) >= 1
        /\ Cell(runs[r].data[1], PhoneKey).t = "string"
        /\ Cell(runs[r].data[1], PhoneKey).v = <<"a", "b", "c">>
        /\ \E c \in CallsOf(r) : transportLog[c].index = 0 /\ transportLog[c].to = <<Suffix>>
        /\ Len(runs[r].results.details) >= 1
        /\ runs[r].results.details[1].status = "failed"
        /\ runs[r].results.details[1].phone = <<"a", "b", "c">>
        /\ runs[r].results.details[1].error = "Evaluation failed"

\* the row indices of the transport calls of invocation r
SentIndices(r) == { transportLog[c].index : c \in CallsOf(r) }
\* the pauses of a run begun after a row index from a up to b - 1
PausesBetween(run, a, b) ==
    { d \in 1..Len(run.delays) : a <= run.delays[d].after /\ run.delays[d].after < b }

\* C26: the transport calls of one run are paced.  Between two consecutive
\* calls of the run exactly one pause of the configured duration was taken,
\* the one after the earlier row, however many rows without a phone lie
\* between them, and no call is outstanding while the run pauses.
C26_OnePauseBetweenSends ==
    \A r \in RunIds : Started(r) =>
        LET run == runs[r] IN
        /\ \A a, b \in SentIndices(r) :
              (a < b /\ ~\E m \in SentIndices(r) : a < m /\ m < b) =>
                  /\ Cardinality(PausesBetween(run, a, b)) = 1
                  /\ \A d \in PausesBetween(run, a, b) :
                        /\ run.delays[d].after = a
                        /\ run.delays[d].seconds = run.given.delay
        /\ run.pc = "delay" => ~\E f \in inflight : f.caller = r
        /\ Cardinality(CallsOf(r)) = Cardinality(SentIndices(r))

\* rows 1 and 3 were sent and row 2 has no phone: one pause, after row 1
C26_Witness ==
    \E r \in RunIds :
        /\ Started(r)
        /\ SentIndices(r) = {0, 2}
        /\ Len(runs[r].results.details) >= 2
        /\ runs[r].results.details[2].error = "No phone number"
        /\ Len(runs[r].delays) = 1
        /\ runs[r].delays[1].after = 0

\* invocation r of send-messages is entered in this step
Entered(r) == runs[r].pc = "idle" /\ runs'[r].pc # "idle"

\* C27: send-messages without a WhatsAppHandler, before any connection or
\* after disconnect-whatsapp: the step that enters the handler is also its
\* reply {success: false, 'WhatsApp handler not initialized'}; no row is
\* processed, nothing is notified and the transport is not called; and the
\* invocation stays as it was replied.  Every finished invocation has a
\* reply.
C27_RefusedWithoutHandler ==
    /\ [][\A r \in RunIds : (Entered(r) /\ whatsappHandler = 0) =>
             /\ runs'[r].pc = "done"
             /\ runs'[r].reply = [sent |-> TRUE, success |-> FALSE,
                                  error |-> "WhatsApp handler not initialized"]
             /\ runs'[r].progress = <<>>
             /\ runs'[r].results.details = <<>>
             /\ runs'[r].rendered = <<>>
             /\ runs'[r].attempts = <<>>
             /\ transportLog' = transportLog
             /\ inflight' = inflight]_vars
    /\ [][\A r \in RunIds : runs[r].pc = "done" => runs'[r] = runs[r]]_vars
    /\ [](\A r \in RunIds : runs[r].pc = "done" <=> runs[r].reply.sent)

\* an invocation made after disconnect-whatsapp destroyed a session that had
\* been ready was refused
C27_Witness ==
    \E r \in RunIds :
        /\ runs[r].pc = "done"
        /\ runs[r].reply.error = "WhatsApp handler not initialized"
        /\ ~runs[r].reply.success
        /\ whatsappHandler = 0
        /\ Len(handlers) = 1
        /\ handlers[1].session = "destroyed"
        /\ runs[r].progress = <<>>
        /\ CallsOf(r) = {}

\* the handler of run r has been destroyed: its client is null for good
Destroyed(r) == Started(r) /\ handlers[runs[r].this].session = "destroyed"

\* C28: destroy() completing under a running campaign does not abort it.
\* The step in which the client becomes null changes no run; from then on
\* every row with a phone that the run takes up is returned failed with
\* 'WhatsApp client not initialized' without a call of the transport; when
\* such a row is recorded and is not the last, the pause is begun; and the
\* run that returns replies success with success + failed = total.
C28_DestroyDoesNotAbort ==
    /\ [][(\E h \in 1..Len(handlers) :
               handlers[h].client = "set" /\ handlers'[h].client = "null")
          => runs' = runs]_vars
    /\ [][\A r \in RunIds :
             (Destroyed(r) /\ Len(runs'[r].attempts) > Len(runs[r].attempts)) =>
                 /\ Len(runs'[r].returned) = Len(runs[r].returned) + 1
                 /\ runs'[r].returned[Len(runs'[r].returned)] =
                        [index |-> runs[r].i, status |-> "failed",
                         error |-> "WhatsApp client not initialized"]
                 /\ transportLog' = transportLog]_vars
    /\ [][\A r \in RunIds :
             (/\ Destroyed(r)
              /\ runs[r].pc = "await_result"
              /\ runs[r].result.error = "WhatsApp client not initialized"
              /\ runs'[r] # runs[r]) =>
                 /\ Len(runs'[r].results.details) = Len(runs[r].results.details) + 1
                 /\ runs'[r].results.failed = runs[r].results.failed + 1
                 /\ runs'[r].results.details[Len(runs'[r].results.details)].error =
                        "WhatsApp client not initialized"
                 /\ Len(runs'[r].results.details) < Len(runs[r].data) =>
                        /\ runs'[r].pc = "delay"
                        /\ runs'[r].delays =
                               Append(runs[r].delays, [after |-> runs[r].i,
                                                       seconds |-> runs[r].given.delay])]_vars
    /\ [](\A r \in RunIds : (Returned(r) /\ Destroyed(r)) =>
             /\ runs[r].reply = [sent |-> TRUE, success |-> TRUE, error |-> NoError]
             /\ runs[r].results.success + runs[r].results.failed = runs[r].results.total
             /\ runs[r].results.total = Len(runs[r].given.data)
             /\ Len(runs[r].results.details) = runs[r].results.total)

\* row 1 was sent with success, then the session was destroyed; rows 2 and 3
\* failed for want of a client, a pause was taken after each of rows 1 and
\* 2, and the run returned 1 success and 2 failures
C28_Witness ==
    \E r \in RunIds :
        /\ Returned(r)
        /\ Destroyed(r)
        /\ runs[r].results.total = 3
        /\ runs[r].results.success = 1
        /\ runs[r].results.failed = 2
        /\ runs[r].results.details[2].error = "WhatsApp client not initialized"
        /\ runs[r].results.details[3].error = "WhatsApp client not initialized"
        /\ Cardinality(CallsOf(r)) = 1
        /\ Len(runs[r].delays) = 2

\* initialize() of handler h resolves in this step
Resolves(h) == handlers[h].init # "resolved" /\ handlers'[h].init = "resolved"
\* the client of handler h has emitted 'ready' and has not been destroyed
ReadyEmitted(h) == handlers[h].session \in {"ready", "disconnected"}
\* the client of handler h was created and has not emitted 'ready'
ReadyNotFired(h) == handlers[h].session \in {"starting", "auth_failure"}

\* C29: initialize() resolves only from its wait, in a step that finds
\* isReady true and the client set, and leaves them so; isReady becomes
\* true only in the step of the 'ready' event; and while 'ready' has not
\* fired, also after auth_failure, the wait is not left: no tick resolves it
\* and nothing times it out.
C29_ResolvesOnlyWhenReady ==
    /\ [][\A h \in 1..Len(handlers) : Resolves(h) =>
             /\ handlers[h].init = "polling"
             /\ handlers[h].isReady /\ handlers[h].client = "set"
             /\ handlers'[h].isReady /\ handlers'[h].client = "set"]_vars
    /\ [][\A h \in 1..Len(handlers) :
             (~handlers[h].isReady /\ handlers'[h].isReady) =>
                 (ReadyNotFired(h) /\ handlers'[h].session = "ready")]_vars
    /\ [](\A h \in 1..Len(handlers) :
             /\ handlers[h].isReady => handlers[h].client = "set"
             /\ ReadyNotFired(h) =>
                   /\ handlers[h].init \in {"client", "polling", "rejected"}
                   /\ ~handlers[h].isReady
                   /\ ~ENABLED PollResolve(h))
    /\ [][\A h \in 1..Len(handlers) :
             (handlers[h].init = "polling" /\ ReadyNotFired(h)
              /\ handlers'[h].session \in {"starting", "auth_failure"}) =>
                 handlers'[h].init = "polling"]_vars

\* initialize() has resolved on a session that is ready
C29_Witness ==
    \E h \in 1..Len(handlers) :
        /\ handlers[h].init = "resolved"
        /\ handlers[h].isReady
        /\ handlers[h].client = "set"
        /\ handlers[h].session = "ready"

\* C30 in its finite form: once 'ready' has been emitted, an initialize()
\* that has not yet resolved still can: the flag its ticks read is true.
C30_ReadyLeadsToResolve ==
    \A h \in 1..Len(handlers) :
        (ReadyEmitted(h) /\ handlers[h].init \in {"client", "polling"}) =>
            handlers[h].isReady

\* 'ready' was emitted, 'disconnected' arrived before a tick saw the flag,
\* and initialize() waits on a flag that is false
C30_Witness ==
    \E h \in 1..Len(handlers) :
        /\ handlers[h].session = "disconnected"
        /\ handlers[h].init = "polling"
        /\ ~handlers[h].isReady
        /\ handlers[h].client = "set"
        /\ ~ENABLED PollResolve(h)

\* C31: whenever there are several handlers, every one made before the
\* latest has been destroyed: at most one client is alive.
C31_OneSessionAlive ==
    \A h \in 1..Len(handlers) :
        h < Len(handlers) =>
            /\ handlers[h].client = "null"
            /\ handlers[h].session = "destroyed"

\* Connect was pressed again while the QR code of the first client was on
\* screen: both handlers have a client that is starting
C31_Witness ==
    /\ Len(handlers) = 2
    /\ whatsappHandler = 2
    /\ handlers[1].client = "set" /\ handlers[1].session = "starting"
    /\ handlers[2].client = "set" /\ handlers[2].session = "starting"
    /\ QrShown(ui)

\* C32: while the status is 'connected' no QR code is on screen.
C32_ConnectedShowsNoQr ==
    ui.connectionStatus = "connected" => ~QrShown(ui)

\* 'whatsapp-ready' was handled while QRCode.toDataURL of the one QR event
\* was pending; the listener then finished and put the code on screen
C32_Witness ==
    /\ Len(handlers) = 1
    /\ handlers[1].session = "ready"
    /\ ui.connectionStatus = "connected"
    /\ ui.rendering = 0
    /\ QrShown(ui)

\* C34: send-messages is invoked from the window only while the status is
\* 'connected'.
C34_SendOnlyWhileConnected ==
    [][ (/\ Len(ui'.history) > Len(ui.history)
         /\ ui'.history[Len(ui'.history)] = "invoke")
        => ui.connectionStatus = "connected" ]_vars

\* the session of the only handler has dropped, the status says so, and
\* the send button is on screen and enabled
C34_Witness ==
    /\ Len(handlers) = 1
    /\ handlers[1].session = "disconnected"
    /\ ui.connectionStatus = "disconnected"
    /\ SendButtonEnabled(ui)
    /\ ENABLED HandleSendMessages

\* C35 in its finite form: once the initialize() of the latest handler has
\* rejected (init-whatsapp has replied success: false), the Connect button
\* is enabled.
C35_FailureReenablesConnect ==
    \A h \in 1..Len(handlers) :
        (h = Len(handlers) /\ handlers[h].init = "rejected") =>
            ConnectButtonEnabled(ui)

\* client.initialize() of the only handler rejected before any event: the
\* status is 'connecting', the button disabled, no listener has work left
C35_Witness ==
    /\ Len(handlers) = 1
    /\ handlers[1].init = "rejected"
    /\ handlers[1].session = "starting"
    /\ ui.connectionStatus = "connecting"
    /\ ui.rendering = 0
    /\ ~QrShown(ui)
    /\ ~ConnectButtonEnabled(ui)

\* C33: at most one send-messages invocation of the window is outstanding;
\* isSending is true exactly while one is, and the send button is then
\* disabled; the reply, successful or not, ends isSending, and results
\* leaves null only on a successful reply.
C33_OneInvocationOutstanding ==
    /\ [](/\ ui.outstanding \in {0, 1}
          /\ ui.isSending <=> ui.outstanding = 1
          /\ ui.isSending => ~SendButtonEnabled(ui) /\ ~ENABLED HandleSendMessages)
    /\ [][ ui'.outstanding < ui.outstanding =>
             /\ ui.isSending /\ ~ui'.isSending
             /\ ui.results.null
             /\ ui'.results # ui.results => ~ui'.results.null ]_vars
    /\ [][ ui'.results # ui.results =>
             \/ ui'.outstanding < ui.outstanding /\ ~ui'.results.null
             \/ ui'.outstanding > ui.outstanding /\ ui'.results.null ]_vars

\* a campaign was accepted and its reply was a failure: isSending is false
\* again, the button enabled, results still null
C33_Witness ==
    /\ Len(ui.history) = 2 /\ ui.history[2] = "invoke"
    /\ ~ui.pending /\ ui.outstanding = 0
    /\ ~ui.isSending
    /\ ui.results.null
    /\ SendButtonEnabled(ui)

\* C36: the log holds at most 10 entries: the latest min(n, 10) of the n
\* progress events of the campaign, newest first; a step that starts a
\* campaign empties it.
C36_LogKeepsLatestTen ==
    /\ [](/\ Len(ui.logs) <= 10
          /\ Len(ui.logs) = IF Len(ui.received) < 10 THEN Len(ui.received) ELSE 10
          /\ \A k \in 1..Len(ui.logs) :
                 ui.logs[k] = ui.received[Len(ui.received) - k + 1])
    /\ [][ ui'.outstanding > ui.outstanding =>
             ui'.logs = <<>> /\ ui'.received = <<>> ]_vars

\* the eleventh progress event of a campaign has been handled: ten entries
\* are listed and the first event is no longer among them
C36_Witness ==
    /\ Len(ui.received) = 11
    /\ Len(ui.logs) = 10
    /\ ui.logs[1] = ui.received[11]
    /\ ui.logs[10] = ui.received[2]

\* C37: selectedRows has no duplicates and holds only positions of the
\* listed excelData, whose rows are rows of the sheet; the rows a click on
\* Send would hand over are listed rows and as many as 'Total messages'
\* says, and a step that invokes send-messages hands over exactly these.
C37_SelectionIsValid ==
    /\ [](/\ \A k \in 1..Len(ui.selectedRows) :
                 /\ ui.selectedRows[k] \in 0..(Len(ui.excelData) - 1)
                 /\ \A j \in 1..Len(ui.selectedRows) :
                        ui.selectedRows[j] = ui.selectedRows[k] => j = k
          /\ \A k \in 1..Len(ui.excelData) :
                 \E j \in 1..Len(ui.allExcelData) : ui.excelData[k] = ui.allExcelData[j]
          /\ Len(DataToSend(ui)) = MessagesToSend(ui)
          /\ \A k \in 1..Len(DataToSend(ui)) :
                 \E j \in 1..Len(ui.excelData) : DataToSend(ui)[k] = ui.excelData[j])
    /\ [][ ui'.outstanding > ui.outstanding =>
             /\ ui'.invoked.data = DataToSend(ui)
             /\ Len(ui'.invoked.data) = MessagesToSend(ui)
             /\ ui'.progress.total = MessagesToSend(ui) ]_vars

\* the range was narrowed to the second row of a sheet of two, that row was
\* selected and a campaign over it was accepted
C37_Witness ==
    /\ Len(ui.allExcelData) = 2
    /\ ui.excelData = <<1>>
    /\ ui.selectedRows = <<0>>
    /\ ui.pending
    /\ ui.invoked.data = <<1>>

\* C38: when both programs have finished over the same rows, column and
\* template, no phone cell is a date and the calls of the client settled
\* the same way in both, the command-line program has counted the
\* successes and failures of the engine's results, has called the client
\* with the same chat ids in the same order, and has paused as often.
C38_CliMatchesEngine ==
    (/\ call.fn = "run" /\ call.pc = "done"
     /\ runs[1].pc = "done"
     /\ \A k \in 1..Len(call.data) : Cell(call.data[k], call.phoneColumn).t # "date"
     /\ [k \in 1..Len(call.settled) |-> call.settled[k].outcome]
            = [k \in 1..Len(runs[1].settled) |-> runs[1].settled[k].outcome])
    => /\ call.successCount = runs[1].results.success
       /\ call.failCount = runs[1].results.failed
       /\ call.successCount + call.failCount = runs[1].results.total
       /\ [k \in 1..Len(call.sent) |-> call.sent[k].to]
              = [k \in 1..Len(transportLog) |-> transportLog[k].to]
       /\ [k \in 1..Len(call.sent) |-> call.sent[k].index]
              = [k \in 1..Len(transportLog) |-> transportLog[k].index]
       /\ Len(call.delays) = Len(runs[1].delays)

\* both programs have finished a sheet whose first row has a phone and
\* whose second has none: one call of the client each, which failed in
\* both, and one pause each
C38_Witness ==
    /\ call.fn = "run" /\ call.pc = "done"
    /\ runs[1].pc = "done"
    /\ Len(call.data) = 2
    /\ Cell(call.data[1], call.phoneColumn) = PhoneCellOf("text")
    /\ Cell(call.data[2], call.phoneColumn) = PhoneCellOf("empty")
    /\ Len(call.sent) = 1 /\ Len(transportLog) = 1
    /\ call.settled = <<[index |-> 0, outcome |-> "error"]>>
    /\ runs[1].settled = call.settled
    /\ call.failCount = 2 /\ runs[1].results.failed = 2
    /\ Len(call.delays) = 1 /\ Len(runs[1].delays) = 1

====
